---- MODULE Spec2Model ----
(***************************************************************************)
(* Model of rust_sql_miniserver: the row / index codec (persistence), the  *)
(* expression evaluator (query_parser), the query handlers and the lock    *)
(* registry (transaction_control, common).                                 *)
(*                                                                         *)
(* Strings are sequences of UTF-8 bytes, files are sequences of bytes.     *)
(* A header file is kept as the Table value it encodes.                    *)
(***************************************************************************)
EXTENDS Integers, Sequences, FiniteSets, TLC

(***************************************************************************)
(* Bounds of the model.                                                    *)
(***************************************************************************)
\* most rows a row file is allowed to grow to
MaxRows == 2
\* number of distinct values of the model's stand-in for the 64-bit hash
HashBuckets == 2
\* number of client threads of the concurrent specification
NThreads == 2
\* most chars between the first and the last char of an input of the lexer
MaxLiteral == 3

(***************************************************************************)
(* Names: table names, column names, file-name suffixes (as UTF-8 bytes).  *)
(***************************************************************************)
\* "all_tables"
TABLES_INFO_NAME == <<97, 108, 108, 95, 116, 97, 98, 108, 101, 115>>
\* "table_name"
TableNameCol == <<116, 97, 98, 108, 101, 95, 110, 97, 109, 101>>
\* "columns_count"
ColumnsCountCol == <<99, 111, 108, 117, 109, 110, 115, 95, 99, 111, 117, 110, 116>>
\* "_rows"
RowsSuffix == <<95, 114, 111, 119, 115>>
\* "_index"
IndexSuffix == <<95, 105, 110, 100, 101, 120>>
\* width of a varchar column
VarcharSize == 256

Zeros(n) == [i \in 1..n |-> 0]

Min(S) == CHOOSE m \in S : \A o \in S : m <= o

(***************************************************************************)
(* DataType and Data (common/src/models/db.rs).  A Data / NodeValue is a   *)
(* record [tag, v] with v a sequence of integers: <<i>> for INT, <<0 or    *)
(* 1>> for BOOLEAN, the bytes for STRING, <<num, den>> for FLOAT (the      *)
(* dyadic rational num/den; den = 0 or -1 for the special values), <<>>    *)
(* for NULL.                                                               *)
(***************************************************************************)
DT_INT == [t |-> "INT", size |-> 0]
DT_STRING(n) == [t |-> "STRING", size |-> n]
DT_BOOLEAN == [t |-> "BOOLEAN", size |-> 0]
DT_FLOAT == [t |-> "FLOAT", size |-> 0]

Column(n, dt, ix) == [name |-> n, data_type |-> dt, is_indexed |-> ix]

DInt(i) == [tag |-> "INT", v |-> <<i>>]
DString(s) == [tag |-> "STRING", v |-> s]
DBool(b) == [tag |-> "BOOLEAN", v |-> <<IF b THEN 1 ELSE 0>>]
DFloat(n, d) == [tag |-> "FLOAT", v |-> <<n, d>>]
NULL == [tag |-> "NULL", v |-> <<>>]

\* Data::is_valid_data_for_type
is_valid_data_for_type(d, dt) ==
    CASE d.tag = "INT" -> dt = DT_INT
      [] d.tag = "STRING" -> dt.t = "STRING"
      [] d.tag = "NULL" -> TRUE
      [] d.tag = "BOOLEAN" -> dt = DT_BOOLEAN
      [] d.tag = "FLOAT" -> dt = DT_FLOAT

\* PersistenceColumn::size
ColSize(c) == IF c.data_type.t = "STRING" THEN c.data_type.size ELSE 8

(***************************************************************************)
(* Integers and floats as big-endian bytes.                                *)
(***************************************************************************)
\* i32::to_be_bytes (two's complement)
I32Bytes(v) ==
    LET w == IF v >= 0 THEN v ELSE -(v + 1)
        raw == <<(w \div 16777216) % 256, (w \div 65536) % 256,
                 (w \div 256) % 256, w % 256>>
    IN IF v >= 0 THEN raw ELSE [i \in 1..4 |-> 255 - raw[i]]

\* i32::from_be_bytes
I32FromBytes(b) ==
    LET neg == b[1] >= 128
        c == IF neg THEN [i \in 1..4 |-> 255 - b[i]] ELSE b
        w == c[1] * 16777216 + c[2] * 65536 + c[3] * 256 + c[4]
    IN IF neg THEN -w - 1 ELSE w

\* u64::to_be_bytes, for the values below 2^31 that the model reaches
U64Bytes(n) == Zeros(4) \o I32Bytes(n)

\* u64::from_be_bytes (IndexRow::parse_u64), same range
parse_u64(bytes, cursor) == I32FromBytes(SubSeq(bytes, cursor + 5, cursor + 8))

Pow2(n) == IF n <= 0 THEN 1 ELSE 2 ^ n

Abs(n) == IF n < 0 THEN -n ELSE n

\* floor(log2 a) for a >= 1
Log2(a) == CHOOSE p \in 0..30 : Pow2(p) <= a /\ (p = 30 \/ a < Pow2(p + 1))

RECURSIVE GCD(_, _)
GCD(a, b) == IF b = 0 THEN a ELSE GCD(b, a % b)

\* canonical form of the rational n/d, d > 0
NormF(n, d) ==
    IF n = 0 THEN <<0, 1>>
    ELSE LET g == GCD(Abs(n), d) IN <<n \div g, d \div g>>

\* f64::to_be_bytes of the float <<n, d>>: sign, 11-bit exponent, 52-bit
\* fraction of which the model's floats use the first 12 bits
F64Bytes(f) ==
    LET n == f[1]
        d == f[2]
    IN CASE d = 0 /\ n = 0 -> <<127, 248, 0, 0, 0, 0, 0, 0>>
         [] d = 0 /\ n > 0 -> <<127, 240, 0, 0, 0, 0, 0, 0>>
         [] d = 0 /\ n < 0 -> <<255, 240, 0, 0, 0, 0, 0, 0>>
         [] d = -1 -> <<128, 0, 0, 0, 0, 0, 0, 0>>
         [] d > 0 /\ n = 0 -> Zeros(8)
         [] OTHER ->
              LET a == Abs(n)
                  p == Log2(a)
                  E == p - Log2(d) + 1023
                  m == ((a - Pow2(p)) * 4096) \div Pow2(p)
                  s == IF n < 0 THEN 128 ELSE 0
              IN <<s + (E \div 16), (E % 16) * 16 + (m \div 256), m % 256,
                   0, 0, 0, 0, 0>>

\* f64::from_be_bytes
F64FromBytes(b) ==
    LET neg == b[1] >= 128
        E == (b[1] % 128) * 16 + (b[2] \div 16)
        m == (b[2] % 16) * 256 + b[3]
        e == E - 1023 - 12
        sgn == IF neg THEN -1 ELSE 1
    IN CASE E = 2047 /\ m = 0 -> <<sgn, 0>>
         [] E = 2047 /\ m # 0 -> <<0, 0>>
         [] E = 0 -> IF neg THEN <<0, -1>> ELSE <<0, 1>>
         [] OTHER -> IF e >= 0 THEN NormF(sgn * (4096 + m) * Pow2(e), 1)
                     ELSE NormF(sgn * (4096 + m), Pow2(-e))

(***************************************************************************)
(* Data codec (persistence/src/table/row.rs).                              *)
(***************************************************************************)
\* PersistenceData::to_bytes; "panic" when a string is longer than the column
DataToBytes(d, max_size, dt) ==
    CASE d.tag = "INT" -> [st |-> "ok", bytes |-> Zeros(4) \o I32Bytes(d.v[1])]
      [] d.tag = "STRING" ->
           IF Len(d.v) > max_size THEN [st |-> "panic", bytes |-> <<>>]
           ELSE [st |-> "ok",
                 bytes |-> [i \in 1..max_size |-> IF i <= Len(d.v) THEN d.v[i] ELSE 0]]
      [] d.tag = "NULL" ->
           [st |-> "ok",
            bytes |-> IF dt.t = "INT" THEN <<1, 0, 0, 0, 0, 0, 0, 0>> ELSE Zeros(8)]
      [] d.tag = "BOOLEAN" -> [st |-> "ok", bytes |-> <<1, 1, d.v[1], 0, 0, 0, 0, 0>>]
      [] d.tag = "FLOAT" -> [st |-> "ok", bytes |-> F64Bytes(d.v)]

\* PersistenceData::string_from_bytes: the bytes before the first zero
string_from_bytes(bytes) ==
    LET zs == {i \in 1..Len(bytes) : bytes[i] = 0}
    IN DString(IF zs = {} THEN bytes ELSE SubSeq(bytes, 1, Min(zs) - 1))

\* PersistenceData::from_bytes
DataFromBytes(bytes, column) ==
    CASE column.data_type.t = "INT" ->
           IF bytes = <<1, 0, 0, 0, 0, 0, 0, 0>> THEN NULL
           ELSE DInt(I32FromBytes(SubSeq(bytes, 5, 8)))
      [] column.data_type.t = "STRING" ->
           IF bytes = Zeros(8) THEN NULL ELSE string_from_bytes(bytes)
      [] column.data_type.t = "BOOLEAN" ->
           IF bytes = Zeros(8) THEN NULL
           ELSE [tag |-> "BOOLEAN", v |-> <<IF bytes[3] # 0 THEN 1 ELSE 0>>]
      [] column.data_type.t = "FLOAT" ->
           IF bytes = Zeros(8) THEN NULL
           ELSE [tag |-> "FLOAT", v |-> F64FromBytes(bytes)]

\* f64 == f64: NaN differs from everything, -0.0 equals 0.0
FloatEq(f, g) ==
    /\ f # <<0, 0>> /\ g # <<0, 0>>
    /\ \/ f = g
       \/ f[1] = 0 /\ g[1] = 0

\* impl PartialEq for Data
DataEq(a, b) ==
    /\ a.tag = b.tag
    /\ IF a.tag = "FLOAT" THEN FloatEq(a.v, b.v) ELSE a.v = b.v

\* PersistenceData::calculate_hash: a stand-in for the 64-bit SipHash of the
\* value with HashBuckets outcomes, so that different values collide
calculate_hash(d) ==
    CASE d.tag = "INT" -> d.v[1] % HashBuckets
      [] d.tag = "STRING" -> (Len(d.v) + (IF Len(d.v) > 0 THEN d.v[1] ELSE 0)) % HashBuckets
      [] d.tag = "NULL" -> 0
      [] d.tag = "BOOLEAN" -> d.v[1] % HashBuckets
      [] d.tag = "FLOAT" -> (Abs(d.v[1]) + Abs(d.v[2])) % HashBuckets

(***************************************************************************)
(* Row codec (persistence/src/table/row.rs).                               *)
(***************************************************************************)
RECURSIVE Concat(_)
Concat(ss) == IF ss = <<>> THEN <<>> ELSE Head(ss) \o Concat(Tail(ss))

\* Table::get_row_size
RECURSIVE get_row_size(_)
get_row_size(columns) ==
    IF columns = <<>> THEN 0 ELSE ColSize(Head(columns)) + get_row_size(Tail(columns))

\* Row::to_bytes
RowToBytes(row, columns) ==
    LET parts == [i \in 1..Len(columns) |->
                     DataToBytes(row[i], ColSize(columns[i]), columns[i].data_type)]
    IN IF \E i \in 1..Len(columns) : parts[i].st = "panic"
       THEN [st |-> "panic", bytes |-> <<>>]
       ELSE [st |-> "ok", bytes |-> Concat([i \in 1..Len(columns) |-> parts[i].bytes])]

\* Row::from_bytes, on a slice of row_size bytes
RowFromBytes(bytes, columns) ==
    [i \in 1..Len(columns) |->
        LET byte_counter == get_row_size(SubSeq(columns, 1, i - 1))
        IN DataFromBytes(SubSeq(bytes, byte_counter + 1, byte_counter + ColSize(columns[i])),
                         columns[i])]

(***************************************************************************)
(* The working directory: a function from file names to file contents.     *)
(* A header file holds the Table it encodes, any other file its bytes.     *)
(***************************************************************************)
NoTable == [name |-> <<>>, columns |-> <<>>]
HeaderFile(table) == [hdr |-> TRUE, table |-> table, bytes |-> <<>>]
BytesFile(bytes) == [hdr |-> FALSE, table |-> NoTable, bytes |-> bytes]

\* std::fs::write
WriteFile(fs, name, content) ==
    [f \in DOMAIN fs \cup {name} |-> IF f = name THEN content ELSE fs[f]]

\* std::fs::remove_file
RemoveFile(fs, name) == [f \in DOMAIN fs \ {name} |-> fs[f]]

\* Table::table_rows_name
table_rows_name(table) == table.name \o RowsSuffix

\* Table::get_index_file_name
get_index_file_name(table, column) == table.name \o column.name \o IndexSuffix

\* Table::load: TableLoading when the file is missing; a file that is not a
\* header makes Table::from_bytes index out of range
Load(fs, name) ==
    IF name \notin DOMAIN fs THEN [st |-> "err", err |-> "TableLoading", table |-> NoTable]
    ELSE IF fs[name].hdr THEN [st |-> "ok", err |-> "", table |-> fs[name].table]
    ELSE [st |-> "panic", err |-> "", table |-> NoTable]

\* RowsIterator::from_table: the slice of a last, incomplete row is out of range
from_table(fs, table) ==
    LET fname == table_rows_name(table)
        row_size == get_row_size(table.columns)
    IN IF fname \notin DOMAIN fs THEN [st |-> "err", err |-> "TableLoading", rows |-> <<>>]
       ELSE LET bytes == fs[fname].bytes
            IN IF Len(bytes) % row_size # 0
               THEN [st |-> "panic", err |-> "", rows |-> <<>>]
               ELSE [st |-> "ok", err |-> "",
                     rows |-> [k \in 1..(Len(bytes) \div row_size) |->
                                 RowFromBytes(SubSeq(bytes, (k - 1) * row_size + 1, k * row_size),
                                              table.columns)]]

(***************************************************************************)
(* Index store (persistence/src/table/index.rs).  An Index is a function   *)
(* from the hashes of its buckets to the buckets' values, each a sequence  *)
(* of <<Data, row_number>>.                                                *)
(***************************************************************************)
\* IndexRow::to_bytes
IndexRowToBytes(hash, values, column) ==
    LET column_size == ColSize(column)
        parts == [i \in 1..Len(values) |->
                    DataToBytes(values[i][1], column_size, column.data_type)]
    IN IF \E i \in 1..Len(values) : parts[i].st = "panic"
       THEN [st |-> "panic", bytes |-> <<>>]
       ELSE [st |-> "ok",
             bytes |-> U64Bytes(Len(values) * (column_size + 8)) \o U64Bytes(hash)
                       \o Concat([i \in 1..Len(values) |->
                                    parts[i].bytes \o U64Bytes(values[i][2])])]

\* the buckets of an index in the order they are written: the iteration
\* order of the HashMap, here ascending by hash (nothing reads the order)
RECURSIVE BucketOrder(_)
BucketOrder(hs) ==
    IF hs = {} THEN <<>> ELSE <<Min(hs)>> \o BucketOrder(hs \ {Min(hs)})

\* Index::to_bytes
IndexToBytes(index, column) ==
    LET order == BucketOrder(DOMAIN index)
        parts == [i \in 1..Len(order) |-> IndexRowToBytes(order[i], index[order[i]], column)]
    IN IF \E i \in 1..Len(order) : parts[i].st = "panic"
       THEN [st |-> "panic", bytes |-> <<>>]
       ELSE [st |-> "ok", bytes |-> Concat([i \in 1..Len(order) |-> parts[i].bytes])]

\* IndexRow::from_bytes: the values of one bucket record
RECURSIVE IndexRowValues(_, _, _, _)
IndexRowValues(bytes, cursor, values_length, column) ==
    IF values_length = 0 THEN [st |-> "ok", values |-> <<>>]
    ELSE IF values_length < ColSize(column) + 8 \/ cursor + ColSize(column) + 8 > Len(bytes)
    THEN [st |-> "panic", values |-> <<>>]
    ELSE LET data == DataFromBytes(SubSeq(bytes, cursor + 1, cursor + ColSize(column)), column)
             row_number == parse_u64(bytes, cursor + ColSize(column))
             rest == IndexRowValues(bytes, cursor + ColSize(column) + 8,
                                    values_length - (ColSize(column) + 8), column)
         IN IF rest.st = "panic" THEN rest
            ELSE [st |-> "ok", values |-> <<(<<data, row_number>>)>> \o rest.values]

\* Index::from_bytes: a later bucket with the same hash replaces an earlier one
RECURSIVE IndexFromBytes(_, _, _)
IndexFromBytes(bytes, cursor, column) ==
    IF cursor >= Len(bytes) THEN [st |-> "ok", rows |-> << >>]
    ELSE IF cursor + 16 > Len(bytes) THEN [st |-> "panic", rows |-> << >>]
    ELSE LET length == parse_u64(bytes, cursor) + 16
         IN IF cursor + length > Len(bytes) THEN [st |-> "panic", rows |-> << >>]
            ELSE LET hash == parse_u64(bytes, cursor + 8)
                     row == IndexRowValues(SubSeq(bytes, cursor + 1, cursor + length), 16,
                                           length - 16, column)
                     rest == IndexFromBytes(bytes, cursor + length, column)
                 IN IF row.st = "panic" \/ rest.st = "panic"
                    THEN [st |-> "panic", rows |-> << >>]
                    ELSE [st |-> "ok",
                          rows |-> [h \in DOMAIN rest.rows \cup {hash} |->
                                      IF h \in DOMAIN rest.rows THEN rest.rows[h]
                                      ELSE row.values]]

\* Index::load (Table::get_index)
get_index(fs, table, column) ==
    LET fname == get_index_file_name(table, column)
    IN IF fname \notin DOMAIN fs THEN [st |-> "err", err |-> "IndexLoading", rows |-> << >>]
       ELSE LET r == IndexFromBytes(fs[fname].bytes, 0, column)
            IN [st |-> r.st, err |-> "", rows |-> r.rows]

\* BuildIndex with the row numbers counted from 1
BuildIndexFromOne(rows, column_number) ==
    LET hs == {calculate_hash(rows[k][column_number]) : k \in 1..Len(rows)}
        F[k \in 0..Len(rows)] ==
            IF k = 0 THEN [h \in hs |-> <<>>]
            ELSE LET data == rows[k][column_number]
                 IN [F[k - 1] EXCEPT ![calculate_hash(data)] = @ \o <<(<<data, k>>)>>]
    IN F[Len(rows)]

\* the HashMap<hash, Vec<(Data, row_number)>> that add_index and
\* generate_indexes build for one column from the rows in physical order
BuildIndex(rows, column_number) ==
    LET hs == {calculate_hash(rows[k][column_number]) : k \in 1..Len(rows)}
        F[k \in 0..Len(rows)] ==
            IF k = 0 THEN [h \in hs |-> <<>>]
            ELSE LET data == rows[k][column_number]
                 IN [F[k - 1] EXCEPT ![calculate_hash(data)] = @ \o <<(<<data, k - 1>>)>>]
    IN F[Len(rows)]

(***************************************************************************)
(* Table store (persistence/src/table/table.rs).  Every operation returns  *)
(* [st, err, fs]: st is "ok", "err" (an Err(..) value) or "panic", fs the  *)
(* working directory as the operation leaves it.                           *)
(***************************************************************************)
Ok(fs) == [st |-> "ok", err |-> "", fs |-> fs]
Err(e, fs) == [st |-> "err", err |-> e, fs |-> fs]
Panic(fs) == [st |-> "panic", err |-> "", fs |-> fs]

\* the part of Table::generate_indexes that writes the index files of the
\* indexed columns, one after the other
RECURSIVE WriteIndexes(_, _, _, _)
WriteIndexes(fs, table, rows, i) ==
    LET Write(b) ==
            IF b.st = "panic" THEN Panic(fs)
            ELSE WriteIndexes(WriteFile(fs, get_index_file_name(table, table.columns[i]),
                                        BytesFile(b.bytes)),
                              table, rows, i + 1)
    IN IF i > Len(table.columns) THEN Ok(fs)
       ELSE IF ~table.columns[i].is_indexed THEN WriteIndexes(fs, table, rows, i + 1)
       ELSE Write(IndexToBytes(BuildIndex(rows, i), table.columns[i]))

\* Table::generate_indexes
generate_indexes(fs, table) ==
    LET Generate(it) ==
            IF it.st = "err" THEN Err(it.err, fs)
            ELSE IF it.st = "panic" THEN Panic(fs)
            ELSE WriteIndexes(fs, table, it.rows, 1)
    IN Generate(from_table(fs, table))

\* Table::insert_row without the call of generate_indexes
insert_row_stale_indexes(fs, table, row) ==
    LET fname == table_rows_name(table)
        AppendRow(b) ==
            IF b.st = "panic" THEN Panic(fs)
            ELSE Ok(WriteFile(fs, fname, BytesFile(fs[fname].bytes \o b.bytes)))
    IN IF fname \notin DOMAIN fs THEN Err("Insert", fs)
       ELSE AppendRow(RowToBytes(row, table.columns))

\* Table::insert_row
insert_row(fs, table, row) ==
    LET fname == table_rows_name(table)
        AppendRow(b) ==
            IF b.st = "panic" THEN Panic(fs)
            ELSE generate_indexes(WriteFile(fs, fname, BytesFile(fs[fname].bytes \o b.bytes)),
                                  table)
    IN IF fname \notin DOMAIN fs THEN Err("Insert", fs)
       ELSE AppendRow(RowToBytes(row, table.columns))

\* Table::seek_row
seek_row(fs, table, row_number) ==
    LET fname == table_rows_name(table)
        row_size == get_row_size(table.columns)
    IN IF fname \notin DOMAIN fs \/ (row_number + 1) * row_size > Len(fs[fname].bytes)
       THEN [st |-> "err", err |-> "RowSeeking", row |-> <<>>]
       ELSE [st |-> "ok", err |-> "",
             row |-> RowFromBytes(SubSeq(fs[fname].bytes, row_number * row_size + 1,
                                         (row_number + 1) * row_size),
                                  table.columns)]

\* the bytes delete_rows keeps: the rows 0..row_count-1 that are not in
\* row_numbers, in their order
RECURSIVE KeptBytes(_, _, _, _, _)
KeptBytes(rows_bytes, row_size, row_count, row_numbers, row_number) ==
    IF row_number >= row_count THEN <<>>
    ELSE (IF row_number \in row_numbers THEN <<>>
          ELSE SubSeq(rows_bytes, row_number * row_size + 1, (row_number + 1) * row_size))
         \o KeptBytes(rows_bytes, row_size, row_count, row_numbers, row_number + 1)

\* Table::delete_rows; row_numbers is the set of the numbers in the Vec
delete_rows(fs, table, row_numbers) ==
    LET fname == table_rows_name(table)
        Rewrite(rows_bytes, row_size) ==
            generate_indexes(
                WriteFile(fs, fname,
                          BytesFile(KeptBytes(rows_bytes, row_size,
                                              Len(rows_bytes) \div row_size, row_numbers, 0))),
                table)
    IN IF fname \notin DOMAIN fs THEN Err("TableLoading", fs)
       ELSE IF table.columns = <<>> THEN Panic(fs)
       ELSE Rewrite(fs[fname].bytes, get_row_size(table.columns))

\* Table::write_table_header
write_table_header(fs, table) == WriteFile(fs, table.name, HeaderFile(table))

\* Table::add_index; column_index counts from 1 here
add_index(fs, table, column_index) ==
    LET indexed == [table EXCEPT !.columns[column_index].is_indexed = TRUE]
        Write(b) ==
            IF b.st = "panic" THEN Panic(fs)
            ELSE Ok(write_table_header(
                      WriteFile(fs, get_index_file_name(table, table.columns[column_index]),
                                BytesFile(b.bytes)),
                      indexed))
        Build(it) ==
            IF it.st = "err" THEN Err(it.err, fs)
            ELSE IF it.st = "panic" THEN Panic(fs)
            ELSE Write(IndexToBytes(BuildIndex(it.rows, column_index),
                                    indexed.columns[column_index]))
    IN IF column_index \notin 1..Len(table.columns) THEN Err("IndexCreating", fs)
       ELSE Build(from_table(fs, table))

\* Table::remove_index without remove_file
remove_index_keep_file(fs, table, column_index) ==
    IF column_index \notin 1..Len(table.columns) THEN Err("IndexCreating", fs)
    ELSE LET plain == [table EXCEPT !.columns[column_index].is_indexed = FALSE]
             fname == get_index_file_name(table, table.columns[column_index])
             fs1 == write_table_header(fs, plain)
         IN IF fname \notin DOMAIN fs1 THEN Err("TableDrop", fs1) ELSE Ok(fs1)

\* Table::remove_index
remove_index(fs, table, column_index) ==
    IF column_index \notin 1..Len(table.columns) THEN Err("IndexCreating", fs)
    ELSE LET plain == [table EXCEPT !.columns[column_index].is_indexed = FALSE]
             fname == get_index_file_name(table, table.columns[column_index])
             fs1 == write_table_header(fs, plain)
         IN IF fname \notin DOMAIN fs1 THEN Err("TableDrop", fs1)
            ELSE Ok(RemoveFile(fs1, fname))

\* the loop of Table::create over the columns
RECURSIVE CreateIndexFiles(_, _, _)
CreateIndexFiles(fs, table, i) ==
    IF i > Len(table.columns) THEN fs
    ELSE CreateIndexFiles(IF table.columns[i].is_indexed
                          THEN WriteFile(fs, get_index_file_name(table, table.columns[i]),
                                         BytesFile(<<>>))
                          ELSE fs,
                          table, i + 1)

\* Table::create
create(fs, table) ==
    Ok(CreateIndexFiles(WriteFile(write_table_header(fs, table), table_rows_name(table),
                                  BytesFile(<<>>)),
                        table, 1))

\* the loop of Table::drop over the columns
RECURSIVE DropIndexFiles(_, _, _)
DropIndexFiles(fs, table, i) ==
    IF i > Len(table.columns) THEN Ok(fs)
    ELSE IF ~table.columns[i].is_indexed THEN DropIndexFiles(fs, table, i + 1)
    ELSE IF get_index_file_name(table, table.columns[i]) \notin DOMAIN fs
    THEN Err("TableDrop", fs)
    ELSE DropIndexFiles(RemoveFile(fs, get_index_file_name(table, table.columns[i])),
                        table, i + 1)

\* Table::drop
drop(fs, table) ==
    IF table.name \notin DOMAIN fs THEN Err("TableDrop", fs)
    ELSE LET fs1 == RemoveFile(fs, table.name)
         IN IF table_rows_name(table) \notin DOMAIN fs1 THEN Err("TableDrop", fs1)
            ELSE DropIndexFiles(RemoveFile(fs1, table_rows_name(table)), table, 1)

(***************************************************************************)
(* Tokens and expression trees (query_parser/src/parser/lexer.rs,          *)
(* expression_tree.rs).  A LexerToken is [t, s, v]: the variant, the text  *)
(* of an operator or data type, and the payload as for Data.               *)
(***************************************************************************)
Tok(t) == [t |-> t, s |-> "", v |-> <<>>]
NumberLiteral(i) == [t |-> "NumberLiteral", s |-> "", v |-> <<i>>]
StringLiteral(str) == [t |-> "StringLiteral", s |-> "", v |-> str]
FloatNumberLiteral(n, d) == [t |-> "FloatNumberLiteral", s |-> "", v |-> <<n, d>>]
BoolLiteral(b) == [t |-> "BoolLiteral", s |-> "", v |-> <<IF b THEN 1 ELSE 0>>]
Identifier(id) == [t |-> "Identifier", s |-> "", v |-> id]
CompareOp(op) == [t |-> "CompareOp", s |-> op, v |-> <<>>]
LogicalOp(op) == [t |-> "LogicalOp", s |-> op, v |-> <<>>]

Leaf(tok) == [kind |-> "Leaf", tok |-> tok]
Binary(left, op, right) == [kind |-> "Binary", left |-> left, op |-> op, right |-> right]
Unary(op, node) == [kind |-> "Unary", op |-> op, node |-> node]

\* Node::collect_identifiers, in the order of the leaves
RECURSIVE collect_identifiers(_)
collect_identifiers(node) ==
    CASE node.kind = "Leaf" ->
           IF node.tok.t = "Identifier" THEN <<node.tok.v>> ELSE <<>>
      [] node.kind = "Binary" ->
           collect_identifiers(node.left) \o collect_identifiers(node.right)
      [] node.kind = "Unary" -> collect_identifiers(node.node)

(***************************************************************************)
(* Expression evaluator (query_parser/src/parser/expression_tree_eval.rs). *)
(* A result is [st, err, val]: "ok" with a NodeValue, "err" with the       *)
(* ParseError, or "panic".  The integers of the model stay far inside i32, *)
(* so the only arithmetic panic is the division by zero.                   *)
(***************************************************************************)
VOk(val) == [st |-> "ok", err |-> "", val |-> val]
VErr(e) == [st |-> "err", err |-> e, val |-> NULL]
VPanic == [st |-> "panic", err |-> "", val |-> NULL]

\* i32 / i32 and i32 % i32: the quotient rounds toward zero
TruncDiv(a, b) ==
    IF (a >= 0) = (b > 0) THEN Abs(a) \div Abs(b) ELSE -(Abs(a) \div Abs(b))
Rem(a, b) == a - b * TruncDiv(a, b)

\* f64 arithmetic on <<n, d>>: <<0, 0>> is NaN, <<1, 0>> and <<-1, 0>> the
\* infinities, <<0, -1>> is -0.0
FNeg(f) ==
    CASE f = <<0, 0>> -> f
      [] f[1] = 0 -> IF f[2] = -1 THEN <<0, 1>> ELSE <<0, -1>>
      [] OTHER -> <<-f[1], f[2]>>

\* f64 < f64
FLess(f, g) ==
    LET Fin(h) == IF h[2] = -1 THEN <<0, 1>> ELSE h
    IN CASE f = <<0, 0>> \/ g = <<0, 0>> -> FALSE
         [] f[2] = 0 -> f[1] < 0 /\ g # f
         [] g[2] = 0 -> g[1] > 0
         [] OTHER -> Fin(f)[1] * Fin(g)[2] < Fin(g)[1] * Fin(f)[2]

\* f64 + - * / % f64
FloatArith(f, g, op) ==
    LET IsNaN(h) == h = <<0, 0>>
        IsInf(h) == h[2] = 0 /\ h[1] # 0
        IsZeroF(h) == h[1] = 0 /\ h[2] # 0
        NegSign(h) == h[1] < 0 \/ h[2] = -1
        Fin(h) == IF h[2] = -1 THEN <<0, 1>> ELSE h
        SignedZero(neg) == IF neg THEN <<0, -1>> ELSE <<0, 1>>
        SignedInf == <<IF NegSign(f) = NegSign(g) THEN 1 ELSE -1, 0>>
        FAdd(a, b) ==
            CASE IsInf(a) /\ IsInf(b) -> IF a = b THEN a ELSE <<0, 0>>
              [] IsInf(a) -> a
              [] IsInf(b) -> b
              [] IsZeroF(a) /\ IsZeroF(b) -> SignedZero(NegSign(a) /\ NegSign(b))
              [] OTHER -> NormF(Fin(a)[1] * Fin(b)[2] + Fin(b)[1] * Fin(a)[2],
                                Fin(a)[2] * Fin(b)[2])
    IN CASE IsNaN(f) \/ IsNaN(g) -> <<0, 0>>
         [] op = "Add" -> FAdd(f, g)
         [] op = "Sub" -> FAdd(f, FNeg(g))
         [] op = "Mul" ->
              (CASE (IsInf(f) /\ IsZeroF(g)) \/ (IsZeroF(f) /\ IsInf(g)) -> <<0, 0>>
                 [] IsInf(f) \/ IsInf(g) -> SignedInf
                 [] IsZeroF(f) \/ IsZeroF(g) -> SignedZero(NegSign(f) # NegSign(g))
                 [] OTHER -> NormF(f[1] * g[1], f[2] * g[2]))
         [] op = "Div" ->
              (CASE (IsInf(f) /\ IsInf(g)) \/ (IsZeroF(f) /\ IsZeroF(g)) -> <<0, 0>>
                 [] IsInf(f) \/ IsZeroF(g) -> SignedInf
                 [] IsInf(g) \/ IsZeroF(f) -> SignedZero(NegSign(f) # NegSign(g))
                 [] OTHER -> IF g[1] > 0 THEN NormF(f[1] * g[2], f[2] * g[1])
                             ELSE NormF(-(f[1] * g[2]), f[2] * (-g[1])))
         [] op = "Mod" ->
              (CASE IsInf(f) \/ IsZeroF(g) -> <<0, 0>>
                 [] IsInf(g) \/ IsZeroF(f) -> f
                 [] OTHER ->
                      LET q == TruncDiv(f[1] * g[2], f[2] * g[1])
                          r == NormF(f[1] * g[2] - q * g[1] * f[2], f[2] * g[2])
                      IN IF r[1] = 0 THEN SignedZero(NegSign(f)) ELSE r)

\* evaluate_float_number_op
evaluate_float_number_op(f1, f2, op) ==
    CASE op \in {"Add", "Sub", "Mul", "Div", "Mod"} ->
           VOk([tag |-> "FLOAT", v |-> FloatArith(f1, f2, op)])
      [] op = "Greater" -> VOk(DBool(FLess(f2, f1)))
      [] op = "Less" -> VOk(DBool(FLess(f1, f2)))
      [] op = "GreaterEqual" -> VOk(DBool(FLess(f2, f1) \/ FloatEq(f1, f2)))
      [] op = "LessEqual" -> VOk(DBool(FLess(f1, f2) \/ FloatEq(f1, f2)))
      [] op = "Equal" -> VOk(DBool(FloatEq(f1, f2)))
      [] op = "NotEqual" -> VOk(DBool(~FloatEq(f1, f2)))
\* evaluate_int_number_op
evaluate_int_number_op(i1, i2, op) ==
    CASE op = "Add" -> VOk(DInt(i1 + i2))
      [] op = "Sub" -> VOk(DInt(i1 - i2))
      [] op = "Mul" -> VOk(DInt(i1 * i2))
      [] op = "Div" -> IF i2 = 0 THEN VPanic ELSE VOk(DInt(TruncDiv(i1, i2)))
      [] op = "Mod" -> IF i2 = 0 THEN VPanic ELSE VOk(DInt(Rem(i1, i2)))
      [] op = "Greater" -> VOk(DBool(i1 > i2))
      [] op = "Less" -> VOk(DBool(i1 < i2))
      [] op = "GreaterEqual" -> VOk(DBool(i1 >= i2))
      [] op = "LessEqual" -> VOk(DBool(i1 <= i2))
      [] op = "Equal" -> VOk(DBool(i1 = i2))
      [] op = "NotEqual" -> VOk(DBool(i1 # i2))

\* impl TryFrom<&LexerToken> for NumberBinOp; "" stands for Err(InvalidOperator)
NumberBinOp(op) ==
    CASE op.t = "Plus" -> "Add"
      [] op.t = "Minus" -> "Sub"
      [] op.t = "Star" -> "Mul"
      [] op.t = "Slash" -> "Div"
      [] op.t = "Percent" -> "Mod"
      [] op.t = "CompareOp" /\ op.s = ">" -> "Greater"
      [] op.t = "CompareOp" /\ op.s = "<" -> "Less"
      [] op.t = "CompareOp" /\ op.s = ">=" -> "GreaterEqual"
      [] op.t = "CompareOp" /\ op.s = "<=" -> "LessEqual"
      [] op.t = "CompareOp" /\ op.s = "=" -> "Equal"
      [] op.t = "CompareOp" /\ op.s \in {"!=", "<>"} -> "NotEqual"
      [] OTHER -> ""

\* impl TryFrom<&LexerToken> for BoolBinOp
BoolBinOp(op) ==
    CASE op.t = "LogicalOp" /\ op.s = "and" -> "And"
      [] op.t = "LogicalOp" /\ op.s = "or" -> "Or"
      [] op.t = "LogicalOp" /\ op.s = "xor" -> "Xor"
      [] op.t = "CompareOp" /\ op.s = "=" -> "Equal"
      [] op.t = "CompareOp" /\ op.s \in {"!=", "<>"} -> "NotEqual"
      [] OTHER -> ""

\* impl TryFrom<&LexerToken> for StringOp
StringOp(op) ==
    CASE op.t = "Plus" -> "Concat"
      [] op.t = "CompareOp" /\ op.s = "=" -> "Equal"
      [] op.t = "CompareOp" /\ op.s \in {"!=", "<>"} -> "NotEqual"
      [] OTHER -> ""

\* evaluate_binary_number_op
evaluate_binary_number_op(l, r, op) ==
    CASE l.tag = "INT" /\ r.tag = "INT" -> evaluate_int_number_op(l.v[1], r.v[1], op)
      [] l.tag = "FLOAT" /\ r.tag = "FLOAT" -> evaluate_float_number_op(l.v, r.v, op)
      [] l.tag = "INT" /\ r.tag = "FLOAT" -> evaluate_float_number_op(<<l.v[1], 1>>, r.v, op)
      [] l.tag = "FLOAT" /\ r.tag = "INT" -> evaluate_float_number_op(l.v, <<r.v[1], 1>>, op)
      [] r.tag = "NULL" -> VOk(NULL)
      [] OTHER -> VErr("InvalidType")

\* evaluate_string_op
evaluate_string_op(l, r, op) ==
    CASE r.tag = "STRING" ->
           (CASE op = "Concat" -> VOk(DString(l.v \o r.v))
              [] op = "Equal" -> VOk(DBool(l.v = r.v))
              [] op = "NotEqual" -> VOk(DBool(l.v # r.v)))
      [] r.tag = "NULL" -> VOk(NULL)
      [] OTHER -> VErr("InvalidType")

\* evaluate_bool_op
evaluate_bool_op(l, r, op) ==
    CASE r.tag = "BOOLEAN" ->
           (CASE op = "And" -> VOk(DBool(l.v[1] = 1 /\ r.v[1] = 1))
              [] op = "Or" -> VOk(DBool(l.v[1] = 1 \/ r.v[1] = 1))
              [] op = "Xor" -> VOk(DBool(l.v[1] # r.v[1]))
              [] op = "Equal" -> VOk(DBool(l.v[1] = r.v[1]))
              [] op = "NotEqual" -> VOk(DBool(l.v[1] # r.v[1])))
      [] r.tag = "NULL" -> VOk(NULL)
      [] OTHER -> VErr("InvalidType")

\* evaluate_leaf
evaluate_leaf(token, identifier_map) ==
    CASE token.t = "BoolLiteral" -> VOk([tag |-> "BOOLEAN", v |-> token.v])
      [] token.t = "StringLiteral" -> VOk(DString(token.v))
      [] token.t = "NumberLiteral" -> VOk([tag |-> "INT", v |-> token.v])
      [] token.t = "FloatNumberLiteral" -> VOk([tag |-> "FLOAT", v |-> token.v])
      [] token.t = "Identifier" ->
           IF token.v \in DOMAIN identifier_map THEN VOk(identifier_map[token.v])
           ELSE VErr("IdentifierNotFound")
      [] token.t = "Null" -> VOk(NULL)
      [] OTHER -> VErr("UnexpectedToken")

\* evaluate_unary
evaluate_unary(op, node_value) ==
    CASE op.t \in {"Not", "ExclamationMark"} ->
           (CASE node_value.tag = "BOOLEAN" -> VOk(DBool(node_value.v[1] = 0))
              [] node_value.tag = "NULL" -> VOk(NULL)
              [] OTHER -> VErr("InvalidType"))
      [] op.t = "Minus" ->
           (CASE node_value.tag = "INT" -> VOk(DInt(-node_value.v[1]))
              [] node_value.tag = "FLOAT" -> VOk([tag |-> "FLOAT", v |-> FNeg(node_value.v)])
              [] node_value.tag = "NULL" -> VOk(NULL)
              [] OTHER -> VErr("InvalidType"))
      [] OTHER -> VPanic

\* evaluate_node on the two values with `!=` read like `<>` on a NULL left side
EvalBinaryNotEqual(left_value, op, right_value) ==
    CASE left_value.tag = "BOOLEAN" ->
           IF BoolBinOp(op) = "" THEN VErr("InvalidOperator")
           ELSE evaluate_bool_op(left_value, right_value, BoolBinOp(op))
      [] left_value.tag = "STRING" ->
           IF StringOp(op) = "" THEN VErr("InvalidOperator")
           ELSE evaluate_string_op(left_value, right_value, StringOp(op))
      [] left_value.tag \in {"INT", "FLOAT"} ->
           IF NumberBinOp(op) = "" THEN VErr("InvalidOperator")
           ELSE evaluate_binary_number_op(left_value, right_value, NumberBinOp(op))
      [] left_value.tag = "NULL" ->
           CASE op.t = "CompareOp" /\ op.s = "=" -> VOk(DBool(right_value = NULL))
             [] op.t = "CompareOp" /\ op.s \in {"<>", "!="} -> VOk(DBool(right_value # NULL))
             [] OTHER -> VOk(NULL)

\* what evaluate_node does with the values of the two sides of a Binary:
\* the type of the left value decides which operation is expected
EvalBinary(left_value, op, right_value) ==
    CASE left_value.tag = "BOOLEAN" ->
           IF BoolBinOp(op) = "" THEN VErr("InvalidOperator")
           ELSE evaluate_bool_op(left_value, right_value, BoolBinOp(op))
      [] left_value.tag = "STRING" ->
           IF StringOp(op) = "" THEN VErr("InvalidOperator")
           ELSE evaluate_string_op(left_value, right_value, StringOp(op))
      [] left_value.tag \in {"INT", "FLOAT"} ->
           IF NumberBinOp(op) = "" THEN VErr("InvalidOperator")
           ELSE evaluate_binary_number_op(left_value, right_value, NumberBinOp(op))
      [] left_value.tag = "NULL" ->
           CASE op.t = "CompareOp" /\ op.s = "=" -> VOk(DBool(right_value = NULL))
             [] op.t = "CompareOp" /\ op.s = "<>" -> VOk(DBool(right_value # NULL))
             [] OTHER -> VOk(NULL)

\* evaluate_node
RECURSIVE evaluate_node(_, _)
evaluate_node(node, identifier_map) ==
    CASE node.kind = "Leaf" -> evaluate_leaf(node.tok, identifier_map)
      [] node.kind = "Unary" ->
           LET n == evaluate_node(node.node, identifier_map)
           IN IF n.st # "ok" THEN n ELSE evaluate_unary(node.op, n.val)
      [] node.kind = "Binary" ->
           LET l == evaluate_node(node.left, identifier_map)
           IN IF l.st # "ok" THEN l
              ELSE LET r == evaluate_node(node.right, identifier_map)
                   IN IF r.st # "ok" THEN r ELSE EvalBinary(l.val, node.op, r.val)

\* evaluate_binary_node: the WHERE adapter; val is BOOLEAN
evaluate_binary_node(node, identifier_map) ==
    LET AsBool(val) ==
            IF val.st # "ok" THEN val
            ELSE CASE val.val.tag = "BOOLEAN" -> val
                   [] val.val.tag = "NULL" -> VOk(DBool(FALSE))
                   [] OTHER -> VErr("InvalidType")
    IN AsBool(evaluate_node(node, identifier_map))

(***************************************************************************)
(* Queries (query_parser/src/parser/query_parser.rs): the Query values     *)
(* that parse produces.  where_body is a Node or NoWhere (None).           *)
(***************************************************************************)
NoWhere == [kind |-> "None"]

Query(kind, table_name) ==
    [kind |-> kind, table_name |-> table_name, columns |-> <<>>, values |-> <<>>,
     body |-> <<>>, where_body |-> NoWhere, columns_definition |-> <<>>,
     column_name |-> <<>>]

Select(body, table_name, where_body) ==
    [Query("Select", table_name) EXCEPT !.body = body, !.where_body = where_body]
Insert(values, columns, table_name) ==
    [Query("Insert", table_name) EXCEPT !.values = values, !.columns = columns]
Delete(table_name, where_body) ==
    [Query("Delete", table_name) EXCEPT !.where_body = where_body]
CreateTable(table_name, columns_definition) ==
    [Query("CreateTable", table_name) EXCEPT !.columns_definition = columns_definition]
CreateIndex(column_name, table_name) ==
    [Query("CreateIndex", table_name) EXCEPT !.column_name = column_name]
DropIndex(column_name, table_name) ==
    [Query("DropIndex", table_name) EXCEPT !.column_name = column_name]
DropTable(table_name) == Query("DropTable", table_name)

(***************************************************************************)
(* Tokenizer and lexer (query_parser/src/parser/tokenizer.rs, lexer.rs).   *)
(* The input is a sequence of ASCII bytes, so that a char is one byte and  *)
(* char_pos counts bytes; a lexeme is a subsequence of the input.  The     *)
(* functions return [st, err, tokens].                                     *)
(***************************************************************************)
\* is_allowed_identifier_char: is_alphanumeric() || is_ascii_punctuation()
is_allowed_identifier_char(ch) ==
    \/ ch \in 48..57 \/ ch \in 65..90 \/ ch \in 97..122
    \/ ch \in 33..47 \/ ch \in 58..64 \/ ch \in 91..96 \/ ch \in 123..126

\* the loop of tokenize over the chars: char_pos counts from 1 here, so that
\* token_current_i is char_pos and &input[a..b] is SubSeq(input, a + 1, b)
RECURSIVE TokenizeLoop(_, _, _, _, _)
TokenizeLoop(input, char_pos, state, token_start_i, tokens) ==
    LET char == input[char_pos]
        token_current_i == char_pos
        Slice(a, b) == SubSeq(input, a + 1, b)
        InvalidChar == [st |-> "err", err |-> "InvalidChar", tokens |-> <<>>]
        \* the end of the loop body: the check of the end of the input
        Continue(state1, start1, tokens1) ==
            IF token_current_i = Len(input)
            THEN IF state1 = "Normal"
                 THEN [st |-> "ok", err |-> "",
                       tokens |-> Append(tokens1, Slice(start1, token_current_i))]
                 ELSE [st |-> "err", err |-> "UnfinishedStringLiteral", tokens |-> <<>>]
            ELSE TokenizeLoop(input, char_pos + 1, state1, start1, tokens1)
        Separator ==
            Continue("Normal", token_current_i,
                     Append(tokens, Slice(token_start_i, token_current_i - 1))
                     \o (IF char # 32 THEN <<Slice(token_current_i - 1, token_current_i)>>
                         ELSE <<>>))
        DoubleChar ==
            IF token_current_i < Len(input)
            THEN IF <<char, input[token_current_i + 1]>>
                        \in {<<60, 61>>, <<62, 61>>, <<60, 62>>, <<33, 61>>}
                 THEN Continue("DoubleCharSizeOperator", token_start_i, tokens)
                 ELSE Continue("Normal", token_current_i,
                               tokens \o <<Slice(token_start_i, token_current_i - 1),
                                           Slice(token_current_i - 1, token_current_i)>>)
            ELSE Continue("Normal", token_start_i, tokens)
    IN CASE state = "Normal" ->
              (CASE char \in {40, 41, 32, 44, 59, 61, 43, 45} -> Separator
                 [] char \in {34, 39} -> Continue("StrLit", token_start_i, tokens)
                 [] char = 92 -> InvalidChar
                 [] char \in {62, 60, 33} -> DoubleChar
                 [] OTHER -> IF ~is_allowed_identifier_char(char) THEN InvalidChar
                             ELSE Continue("Normal", token_start_i, tokens))
         [] state = "StrLit" ->
              (CASE char = 92 -> Continue("StrLitEscapedChar", token_start_i, tokens)
                 [] char \in {34, 39} ->
                      IF /\ token_current_i < Len(input)
                         /\ input[token_current_i + 1] \notin {32, 44, 59, 61, 41}
                      THEN InvalidChar
                      ELSE Continue("Normal", token_current_i,
                                    Append(tokens, Slice(token_start_i, token_current_i)))
                 [] OTHER -> Continue("StrLit", token_start_i, tokens))
         [] state = "StrLitEscapedChar" -> Continue("StrLit", token_start_i, tokens)
         [] state = "DoubleCharSizeOperator" ->
              Continue("Normal", token_current_i,
                       tokens \o <<Slice(token_start_i, token_current_i - 2),
                                   Slice(token_current_i - 2, token_current_i)>>)

\* tokenize: the lexemes of the input that are not empty
tokenize(input) ==
    LET Filter(r) == [r EXCEPT !.tokens = SelectSeq(r.tokens, LAMBDA tok : tok # <<>>)]
    IN IF input = <<>> THEN [st |-> "ok", err |-> "", tokens |-> <<>>]
       ELSE Filter(TokenizeLoop(input, 1, "Normal", 0, <<>>))

\* str::to_lowercase on ASCII bytes
to_lowercase(str) == [k \in 1..Len(str) |-> IF str[k] \in 65..90 THEN str[k] + 32 ELSE str[k]]

\* the arms of the match in lex on the lowercased lexeme: keywords,
\* operators, punctuation, data types
LexerTokens ==
    {<<<<115, 101, 108, 101, 99, 116>>, Tok("Select")>>,
     <<<<105, 110, 115, 101, 114, 116>>, Tok("Insert")>>,
     <<<<100, 101, 108, 101, 116, 101>>, Tok("Delete")>>,
     <<<<99, 114, 101, 97, 116, 101>>, Tok("Create")>>,
     <<<<100, 114, 111, 112>>, Tok("Drop")>>,
     <<<<116, 97, 98, 108, 101>>, Tok("Table")>>,
     <<<<105, 110, 100, 101, 120>>, Tok("Index")>>,
     <<<<119, 104, 101, 114, 101>>, Tok("Where")>>,
     <<<<102, 114, 111, 109>>, Tok("From")>>,
     <<<<105, 110, 116, 111>>, Tok("Into")>>,
     <<<<111, 110>>, Tok("On")>>,
     <<<<118, 97, 108, 117, 101, 115>>, Tok("Values")>>,
     <<<<110, 117, 108, 108>>, Tok("Null")>>,
     <<<<40>>, Tok("ParOpen")>>,
     <<<<41>>, Tok("ParClose")>>,
     <<<<110, 111, 116>>, Tok("Not")>>,
     <<<<42>>, Tok("Star")>>,
     <<<<43>>, Tok("Plus")>>,
     <<<<45>>, Tok("Minus")>>,
     <<<<47>>, Tok("Slash")>>,
     <<<<37>>, Tok("Percent")>>,
     <<<<44>>, Tok("Comma")>>,
     <<<<59>>, Tok("Semicolon")>>,
     <<<<33>>, Tok("ExclamationMark")>>,
     <<<<116, 114, 117, 101>>, BoolLiteral(TRUE)>>,
     <<<<102, 97, 108, 115, 101>>, BoolLiteral(FALSE)>>,
     <<<<61>>, CompareOp("=")>>,
     <<<<33, 61>>, CompareOp("!=")>>,
     <<<<62>>, CompareOp(">")>>,
     <<<<60>>, CompareOp("<")>>,
     <<<<60, 61>>, CompareOp("<=")>>,
     <<<<62, 61>>, CompareOp(">=")>>,
     <<<<60, 62>>, CompareOp("<>")>>,
     <<<<105, 110, 116>>, [Tok("DataType") EXCEPT !.s = "int"]>>,
     <<<<118, 97, 114, 99, 104, 97, 114>>, [Tok("DataType") EXCEPT !.s = "varchar"]>>,
     <<<<102, 108, 111, 97, 116>>, [Tok("DataType") EXCEPT !.s = "float"]>>,
     <<<<98, 111, 111, 108, 101, 97, 110>>, [Tok("DataType") EXCEPT !.s = "boolean"]>>,
     <<<<97, 110, 100>>, LogicalOp("and")>>,
     <<<<111, 114>>, LogicalOp("or")>>,
     <<<<120, 111, 114>>, LogicalOp("xor")>>}

\* the value of a sequence of decimal digits
RECURSIVE Decimal(_)
Decimal(digits) ==
    IF digits = <<>> THEN 0
    ELSE 10 * Decimal(SubSeq(digits, 1, Len(digits) - 1)) + (digits[Len(digits)] - 48)

\* the last arm of the match in lex: a string literal without its quotes, an
\* i32, an f64 (digits with a decimal point here; the words and exponents
\* that f64::from_str also reads are outside the inputs), or an identifier
LexOther(token_str) ==
    LET n == Len(token_str)
        Digits(str) == \A k \in 1..Len(str) : str[k] \in 48..57
        dots == {k \in 1..n : token_str[k] = 46}
        Float(dot) ==
            FloatNumberLiteral(Decimal(SubSeq(token_str, 1, dot - 1) \o SubSeq(token_str, dot + 1, n)),
                               10 ^ (n - dot))
    IN IF \/ (token_str[1] = 34 /\ token_str[n] = 34)
          \/ (token_str[1] = 39 /\ token_str[n] = 39)
       THEN IF n = 1 THEN [st |-> "panic", err |-> "", tok |-> Tok("Null")]
            ELSE [st |-> "ok", err |-> "", tok |-> StringLiteral(SubSeq(token_str, 2, n - 1))]
       ELSE IF Digits(token_str) /\ Decimal(token_str) <= 2147483647
       THEN [st |-> "ok", err |-> "", tok |-> NumberLiteral(Decimal(token_str))]
       ELSE IF Digits(token_str)
       THEN [st |-> "ok", err |-> "", tok |-> FloatNumberLiteral(Decimal(token_str), 1)]
       ELSE IF /\ Cardinality(dots) = 1 /\ n > 1
               /\ \A k \in (1..n) \ dots : token_str[k] \in 48..57
       THEN [st |-> "ok", err |-> "", tok |-> Float(CHOOSE k \in dots : TRUE)]
       ELSE IF \A k \in 1..n : \/ token_str[k] \in 48..57 \/ token_str[k] \in 65..90
                               \/ token_str[k] \in 97..122 \/ token_str[k] \in {46, 95, 45}
       THEN [st |-> "ok", err |-> "", tok |-> Identifier(token_str)]
       ELSE [st |-> "err", err |-> "InvalidIdentifier", tok |-> Tok("Null")]

\* lex: tokenize, then one LexerToken per lexeme
lex(input) ==
    LET LexToken(token_str) ==
            IF \E e \in LexerTokens : e[1] = to_lowercase(token_str)
            THEN [st |-> "ok", err |-> "",
                  tok |-> (CHOOSE e \in LexerTokens : e[1] = to_lowercase(token_str))[2]]
            ELSE LexOther(token_str)
        Lexed(lexemes) ==
            LET toks == [k \in 1..Len(lexemes) |-> LexToken(lexemes[k])]
                bad == {k \in 1..Len(lexemes) : toks[k].st # "ok"}
            IN IF bad = {}
               THEN [st |-> "ok", err |-> "", tokens |-> [k \in 1..Len(lexemes) |-> toks[k].tok]]
               ELSE [st |-> toks[CHOOSE k \in bad : \A j \in bad : k <= j].st,
                     err |-> toks[CHOOSE k \in bad : \A j \in bad : k <= j].err,
                     tokens |-> <<>>]
        Tokenized(r) == IF r.st # "ok" THEN r ELSE Lexed(r.tokens)
    IN Tokenized(tokenize(input))

(***************************************************************************)
(* Parser (query_parser/src/parser).  The parsers work on the tokens of    *)
(* the lexer; index is the position (from 1) of the head, the token that   *)
(* next() returns.  parse_start and the others of ExpressionTreeParser     *)
(* return [st, err, node, index], those of QueryParser [st, err, q, index] *)
(* with their lists in the fields of q.  st is "ok", "err" or "hang": a    *)
(* loop that never ends.                                                   *)
(***************************************************************************)
POk(node, index) == [st |-> "ok", err |-> "", node |-> node, index |-> index]
PErr(e) == [st |-> "err", err |-> e, node |-> NoWhere, index |-> 0]

\* the loop of fix_operator_precedence: the tokens pushed for each token
RECURSIVE FixLoop(_, _)
FixLoop(expression, result) ==
    IF expression = <<>> THEN result
    ELSE LET token == Head(expression)
             Pars(n, t) == [i \in 1..n |-> Tok(t)]
             Around(n) == Pars(n, "ParClose") \o <<token>> \o Pars(n, "ParOpen")
         IN FixLoop(Tail(expression),
                    result \o
                    CASE token.t = "LogicalOp" -> Around(4)
                      [] token.t = "CompareOp" -> Around(3)
                      [] token.t \in {"Plus", "Minus"} ->
                           IF result[Len(result)] = Tok("ParOpen") THEN <<token>>
                           ELSE Around(2)
                      [] token.t \in {"Star", "Slash", "Percent"} -> Around(1)
                      [] token.t = "ParOpen" -> <<token>> \o Pars(4, "ParOpen")
                      [] token.t = "ParClose" -> Pars(4, "ParClose") \o <<token>>
                      [] OTHER -> <<token>>)

\* fix_operator_precedence
fix_operator_precedence(expression) ==
    IF Len(expression) <= 2 THEN expression
    ELSE FixLoop(expression, [i \in 1..4 |-> Tok("ParOpen")]) \o [i \in 1..4 |-> Tok("ParClose")]

\* ExpressionTreeParser::parse_start (with parse_unary) and
\* ExpressionTreeParser::parse_leaf_or_binary
RECURSIVE parse_start(_, _, _), parse_leaf_or_binary(_, _, _)
parse_start(tokens, index, parenthesised) ==
    LET Close(r) ==
            IF r.st # "ok" \/ ~parenthesised THEN r
            ELSE IF r.index <= Len(tokens) /\ tokens[r.index].t = "ParClose"
            THEN POk(r.node, r.index + 1)
            ELSE PErr("UnfinishedParenthesis")
        parse_unary(unary_op, r) ==
            IF r.st # "ok" THEN r ELSE POk(Unary(unary_op, r.node), r.index)
        Par(par_node) ==
            IF par_node.st # "ok" THEN par_node
            ELSE parse_leaf_or_binary(tokens, par_node.index, par_node.node)
        Start(head) ==
            CASE head.t \in {"Minus", "Not", "ExclamationMark"} ->
                   parse_unary(head, parse_start(tokens, index + 1, FALSE))
              [] head.t \in {"Null", "StringLiteral", "NumberLiteral", "BoolLiteral",
                             "FloatNumberLiteral", "Identifier"} ->
                   parse_leaf_or_binary(tokens, index + 1, Leaf(head))
              [] head.t = "ParOpen" -> Par(parse_start(tokens, index + 1, TRUE))
              [] OTHER -> PErr("UnexpectedToken")
    IN IF index > Len(tokens) THEN PErr("UnexpectedQueryEnding")
       ELSE Close(Start(tokens[index]))

parse_leaf_or_binary(tokens, index, left) ==
    LET Right(r) ==
            IF r.st # "ok" THEN r ELSE POk(Binary(left, tokens[index], r.node), r.index)
    IN IF index > Len(tokens) THEN POk(left, index)
       ELSE IF tokens[index].t \in {"CompareOp", "LogicalOp", "Star", "Plus", "Minus",
                                    "Slash", "Percent"}
       THEN Right(parse_start(tokens, index + 1, FALSE))
       ELSE POk(left, index)

\* the loop of ExpressionTreeParser::parse: while !self.eof().  When
\* parse_leaf_or_binary returns its node without advancing, the loop goes on
\* for ever
RECURSIVE ParseLoop(_, _)
ParseLoop(tokens, r) ==
    LET Again(n) ==
            IF n.st = "ok" /\ n.index = r.index
            THEN [st |-> "hang", err |-> "", node |-> NoWhere, index |-> 0]
            ELSE ParseLoop(tokens, n)
    IN IF r.st # "ok" \/ r.index > Len(tokens) THEN r
       ELSE Again(parse_leaf_or_binary(tokens, r.index, r.node))

\* parse_tree: fix_operator_precedence, then ExpressionTreeParser::parse;
\* node is NoWhere for Ok(None)
parse_tree(expression) ==
    LET parse(tokens) ==
            IF tokens = <<>> THEN POk(NoWhere, 1)
            ELSE ParseLoop(tokens, parse_start(tokens, 1, FALSE))
    IN parse(fix_operator_precedence(expression))

\* QueryParser::next under the check of require_token, require_identifier,
\* require_datatype, require_table_or_index or require_expression_body_token:
\* ts are the kinds of token the check lets pass
require(tokens, index, ts) ==
    IF index > Len(tokens)
    THEN [st |-> "err", err |-> "UnexpectedQueryEnding", tok |-> Tok("Null"), index |-> index + 1]
    ELSE [st |-> IF tokens[index].t \in ts THEN "ok" ELSE "err",
          err |-> IF tokens[index].t \in ts THEN "" ELSE "UnexpectedToken",
          tok |-> tokens[index], index |-> index + 1]

\* QueryParser::try_next: the index after it
try_next(tokens, index, t) ==
    IF index <= Len(tokens) /\ tokens[index].t = t THEN index + 1 ELSE index

QOk(q, index) == [st |-> "ok", err |-> "", q |-> q, index |-> index]
QErr(e) == [st |-> "err", err |-> e, q |-> Query("None", <<>>), index |-> 0]

\* QueryParser::parse_query_body: the tokens up to FROM or the end
RECURSIVE parse_query_body(_, _, _)
parse_query_body(tokens, index, body) ==
    LET Cont(token, i) ==
            IF i > Len(tokens) \/ tokens[i].t = "From"
            THEN QOk([Query("None", <<>>) EXCEPT !.body = Append(body, token)], i)
            ELSE parse_query_body(tokens, i, Append(body, token))
        Pushed(r) ==
            IF r.st # "ok" THEN QErr(r.err)
            ELSE Cont(r.tok, try_next(tokens, r.index, "Comma"))
    IN Pushed(require(tokens, index,
                      {"Identifier", "FloatNumberLiteral", "BoolLiteral", "NumberLiteral",
                       "StringLiteral", "Star", "ParOpen", "ParClose", "Null"}))

\* QueryParser::parse_columns_definition
RECURSIVE parse_columns_definition(_, _, _)
parse_columns_definition(tokens, index, columns) ==
    LET Cont(cs, i) ==
            IF try_next(tokens, i, "Comma") # i
            THEN parse_columns_definition(tokens, i + 1, cs)
            ELSE QOk([Query("None", <<>>) EXCEPT !.columns_definition = cs], i)
        Typed(identifier, datatype) ==
            IF datatype.st # "ok" THEN QErr(datatype.err)
            ELSE Cont(Append(columns, <<identifier.tok.v, datatype.tok.s>>), datatype.index)
        Named(identifier) ==
            IF identifier.st # "ok" THEN QErr(identifier.err)
            ELSE Typed(identifier, require(tokens, identifier.index, {"DataType"}))
    IN Named(require(tokens, index, {"Identifier"}))

\* the column list of INSERT in parse_query: while !try_next(ParClose)
RECURSIVE InsertColumns(_, _, _)
InsertColumns(tokens, index, columns) ==
    LET Named(identifier) ==
            IF identifier.st # "ok" THEN QErr(identifier.err)
            ELSE InsertColumns(tokens, try_next(tokens, identifier.index, "Comma"),
                               Append(columns, identifier.tok.v))
    IN IF try_next(tokens, index, "ParClose") # index
       THEN QOk([Query("None", <<>>) EXCEPT !.columns = columns], index + 1)
       ELSE Named(require(tokens, index, {"Identifier"}))

\* QueryParser::parse_where_body: every token after WHERE goes to parse_tree
parse_where_body(tokens, index) ==
    LET Tree(r, i) ==
            IF r.st # "ok" THEN [QErr(r.err) EXCEPT !.st = r.st]
            ELSE QOk([Query("None", <<>>) EXCEPT !.where_body = r.node], i)
    IN IF try_next(tokens, index, "Where") # index
       THEN Tree(parse_tree(SubSeq(tokens, index + 1, Len(tokens))), Len(tokens) + 1)
       ELSE Tree(parse_tree(<<>>), index)

\* QueryParser::parse_query.  An error that `?` or `return` raises inside an
\* arm ends the function; DROP TABLE returns from inside its arm; the other
\* arms reach try_next(Semicolon) and require_eof
parse_query(tokens) ==
    LET Eof(r) ==
            IF r.st # "ok" THEN r
            ELSE IF try_next(tokens, r.index, "Semicolon") <= Len(tokens)
            THEN QErr("UnexpectedQueryEnding")
            ELSE r
        \* require_identifier, then rest on the name and the index after it
        Ident(index, rest(_, _)) ==
            LET Named(r) == IF r.st # "ok" THEN QErr(r.err) ELSE rest(r.tok.v, r.index)
            IN Named(require(tokens, index, {"Identifier"}))
        \* require_token, then rest on the index after it
        Token(index, t, rest(_)) ==
            LET Passed(r) == IF r.st # "ok" THEN QErr(r.err) ELSE rest(r.index)
            IN Passed(require(tokens, index, {t}))
        Then(r, rest(_, _)) == IF r.st # "ok" THEN r ELSE rest(r.q, r.index)
        SelectArm ==
            Then(parse_query_body(tokens, 2, <<>>), LAMBDA b, i1 :
              Token(i1, "From", LAMBDA i2 :
                Ident(i2, LAMBDA table_name, i3 :
                  Then(parse_where_body(tokens, i3), LAMBDA w, i4 :
                    Eof(QOk(Select(b.body, table_name, w.where_body), i4))))))
        InsertValues(table_name, columns, index) ==
            Token(index, "Values", LAMBDA i1 :
              Then(parse_query_body(tokens, try_next(tokens, i1, "ParOpen"), <<>>),
                   LAMBDA b, i2 :
                LET is_parenthesised == try_next(tokens, i1, "ParOpen") # i1
                    values == IF is_parenthesised
                              THEN SubSeq(b.body, 1, Len(b.body) - 1) ELSE b.body
                IN IF is_parenthesised /\ b.body[Len(b.body)].t # "ParClose"
                   THEN QErr("UnexpectedToken")
                   ELSE IF columns # <<>> /\ Len(columns) # Len(values)
                   THEN QErr("InsertQueryValuesMismatch")
                   ELSE Eof(QOk(Insert(values, columns, table_name), i2))))
        InsertArm ==
            Token(2, "Into", LAMBDA i1 :
              Ident(i1, LAMBDA table_name, i2 :
                IF try_next(tokens, i2, "ParOpen") # i2
                THEN Then(InsertColumns(tokens, i2 + 1, <<>>), LAMBDA c, i3 :
                       InsertValues(table_name, c.columns, i3))
                ELSE InsertValues(table_name, <<>>, i2)))
        DeleteArm ==
            Token(2, "From", LAMBDA i1 :
              Ident(i1, LAMBDA table_name, i2 :
                Then(parse_where_body(tokens, i2), LAMBDA w, i3 :
                  Eof(QOk(Delete(table_name, w.where_body), i3)))))
        \* the index arms of CREATE and DROP
        IndexArm(make(_, _)) ==
            Ident(3, LAMBDA column_name, i1 :
              Token(i1, "On", LAMBDA i2 :
                Ident(i2, LAMBDA table_name, i3 :
                  Eof(QOk(make(column_name, table_name), i3)))))
        CreateTableArm ==
            Ident(3, LAMBDA table_name, i1 :
              Then(parse_columns_definition(tokens, try_next(tokens, i1, "ParOpen"), <<>>),
                   LAMBDA c, i2 :
                IF try_next(tokens, i1, "ParOpen") # i1
                THEN Token(i2, "ParClose", LAMBDA i3 :
                       Eof(QOk(CreateTable(table_name, c.columns_definition), i3)))
                ELSE Eof(QOk(CreateTable(table_name, c.columns_definition), i2))))
        DropTableArm == Ident(3, LAMBDA table_name, i1 : QOk(DropTable(table_name), i1))
        TableOrIndex(table_arm, index_arm) ==
            LET Which(r) ==
                    IF r.st # "ok" THEN QErr(r.err)
                    ELSE IF r.tok.t = "Table" THEN table_arm ELSE index_arm
            IN Which(require(tokens, 2, {"Table", "Index"}))
    IN IF tokens = <<>> THEN QErr("UnexpectedQueryEnding")
       ELSE CASE tokens[1].t = "Select" -> SelectArm
              [] tokens[1].t = "Insert" -> InsertArm
              [] tokens[1].t = "Delete" -> DeleteArm
              [] tokens[1].t = "Create" -> TableOrIndex(CreateTableArm, IndexArm(CreateIndex))
              [] tokens[1].t = "Drop" -> TableOrIndex(DropTableArm, IndexArm(DropIndex))
              [] OTHER -> IF try_next(tokens, 2, "Semicolon") <= Len(tokens)
                          THEN QErr("UnexpectedQueryEnding")
                          ELSE QErr("UnexpectedToken")

(***************************************************************************)
(* Query executor (transaction_control/src).  The body of a handler, that  *)
(* is what it does between taking and releasing the table's lock, returns  *)
(* [st, err, fs, rows, n]: rows are the rows of a SELECT's result, n the   *)
(* number of rows in the message of a DELETE.                              *)
(***************************************************************************)
Res(st, err, fs) == [st |-> st, err |-> err, fs |-> fs, rows |-> <<>>, n |-> 0]

\* a failure of a step of a handler, passed on by `?`
Fail(r, fs) == Res(r.st, r.err, fs)

\* get_columns_definition_map: the position (from 1) that the map holds for
\* a column name, 0 when the name is no key; of two columns with the same
\* name the later one stays in the map
ColPos(table, name) ==
    LET ps == {i \in 1..Len(table.columns) : table.columns[i].name = name}
    IN IF ps = {} THEN 0 ELSE CHOOSE i \in ps : \A j \in ps : j <= i

\* apply_row_predicate
apply_row_predicate(db_row, table, query_node) ==
    LET names == {table.columns[i].name : i \in 1..Len(table.columns)}
        identifier_map == [nm \in names |-> db_row[ColPos(table, nm)]]
    IN evaluate_binary_node(query_node, identifier_map)

\* data_from_node: the value of a node that names no column
data_from_node(node) == evaluate_node(node, << >>)

\* the scan of get_rows_for_where_condition: the predicate on each row in
\* turn, the first evaluation that fails ends the scan
RECURSIVE ScanRows(_, _, _, _)
ScanRows(rows, table, node, i) ==
    LET Push(p, rest) ==
            IF rest.st # "ok" THEN rest
            ELSE [rest EXCEPT !.row_numbers =
                     (IF p.val.v[1] = 1 THEN <<i - 1>> ELSE <<>>) \o @]
        Test(p) ==
            IF p.st # "ok" THEN [st |-> p.st, err |-> p.err, row_numbers |-> <<>>]
            ELSE Push(p, ScanRows(rows, table, node, i + 1))
    IN IF i > Len(rows) THEN [st |-> "ok", err |-> "", row_numbers |-> <<>>]
       ELSE Test(apply_row_predicate(rows[i], table, node))

\* the entries of an index bucket that equal the searched value
RECURSIVE BucketMatches(_, _)
BucketMatches(values, searched_value) ==
    IF values = <<>> THEN <<>>
    ELSE (IF DataEq(Head(values)[1], searched_value) THEN <<Head(values)[2]>> ELSE <<>>)
         \o BucketMatches(Tail(values), searched_value)

\* the guard of the index arm of get_rows_for_where_condition
UsesIndex(table, where_body) ==
    /\ where_body.kind = "Binary"
    /\ where_body.op = CompareOp("=")
    /\ LET ids == collect_identifiers(where_body)
       IN /\ Len(ids) = 1
          /\ ColPos(table, ids[1]) # 0
          /\ table.columns[ColPos(table, ids[1])].is_indexed

\* the index arm of get_rows_for_where_condition
IndexLookup(index, searched_value) ==
    IF index.st # "ok" THEN [st |-> index.st, err |-> index.err, row_numbers |-> <<>>]
    ELSE IF searched_value.st # "ok"
    THEN [st |-> searched_value.st, err |-> searched_value.err, row_numbers |-> <<>>]
    ELSE [st |-> "ok", err |-> "",
          row_numbers |->
             IF calculate_hash(searched_value.val) \in DOMAIN index.rows
             THEN BucketMatches(index.rows[calculate_hash(searched_value.val)],
                                searched_value.val)
             ELSE <<>>]

\* get_rows_for_where_condition
get_rows_for_where_condition(fs, table, where_body) ==
    LET ids == IF where_body.kind = "None" THEN <<>> ELSE collect_identifiers(where_body)
        Rows(it) ==
            IF it.st # "ok" THEN [st |-> it.st, err |-> it.err, row_numbers |-> <<>>]
            ELSE IF \E k \in 1..Len(ids) : ColPos(table, ids[k]) = 0
            THEN [st |-> "err", err |-> "ColumnNotExists", row_numbers |-> <<>>]
            ELSE IF where_body.kind = "None"
            THEN [st |-> "ok", err |-> "",
                  row_numbers |-> [k \in 1..Len(it.rows) |-> k - 1]]
            ELSE IF UsesIndex(table, where_body)
            THEN IndexLookup(get_index(fs, table, table.columns[ColPos(table, ids[1])]),
                             data_from_node(where_body.right))
            ELSE ScanRows(it.rows, table, where_body, 1)
    IN Rows(from_table(fs, table))

\* the loop of process_select_query over seek_row
RECURSIVE SeekRows(_, _, _)
SeekRows(fs, table, row_numbers) ==
    LET Push(r, rest) ==
            IF rest.st # "ok" THEN rest ELSE [rest EXCEPT !.rows = <<r.row>> \o @]
        Seek(r) ==
            IF r.st # "ok" THEN [st |-> r.st, err |-> r.err, rows |-> <<>>]
            ELSE Push(r, SeekRows(fs, table, Tail(row_numbers)))
    IN IF row_numbers = <<>> THEN [st |-> "ok", err |-> "", rows |-> <<>>]
       ELSE Seek(seek_row(fs, table, Head(row_numbers)))

\* get_projection_columns: the positions of the projected columns; a token
\* that is neither an identifier nor `*` reaches unimplemented!()
RECURSIVE get_projection_columns(_, _)
get_projection_columns(body, table) ==
    LET token == Head(body)
        Push(columns, rest) ==
            IF rest.st # "ok" THEN rest ELSE [rest EXCEPT !.columns = columns \o @]
    IN IF body = <<>> THEN [st |-> "ok", err |-> "", columns |-> <<>>]
       ELSE CASE token.t = "Identifier" ->
                   IF ColPos(table, token.v) = 0
                   THEN [st |-> "err", err |-> "ColumnNotExists", columns |-> <<>>]
                   ELSE Push(<<ColPos(table, token.v)>>,
                             get_projection_columns(Tail(body), table))
              [] token.t = "Star" ->
                   Push([i \in 1..Len(table.columns) |-> ColPos(table, table.columns[i].name)],
                        get_projection_columns(Tail(body), table))
              [] OTHER -> [st |-> "panic", err |-> "", columns |-> <<>>]

\* project_row
project_row(row, columns) == [i \in 1..Len(columns) |-> row[columns[i]]]

\* process_select_query, between the lock and the return
SelectBody(q, fs) ==
    LET Project(rows, columns) ==
            IF columns.st # "ok" THEN Fail(columns, fs)
            ELSE [Res("ok", "", fs) EXCEPT
                     !.rows = [i \in 1..Len(rows) |-> project_row(rows[i], columns.columns)],
                     !.n = Len(rows)]
        Seek(table, rows) ==
            IF rows.st # "ok" THEN Fail(rows, fs)
            ELSE Project(rows.rows, get_projection_columns(q.body, table))
        Where(table, rows_numbers) ==
            IF rows_numbers.st # "ok" THEN Fail(rows_numbers, fs)
            ELSE Seek(table, SeekRows(fs, table, rows_numbers.row_numbers))
        Loaded(t) ==
            IF t.st # "ok" THEN Fail(t, fs)
            ELSE Where(t.table, get_rows_for_where_condition(fs, t.table, q.where_body))
    IN Loaded(Load(fs, q.table_name))

Range(seq) == {seq[i] : i \in 1..Len(seq)}

\* process_delete_query from delete_rows to the return
DeleteRows(fs, table, row_numbers) ==
    LET Deleted(d) == [Res(d.st, d.err, d.fs) EXCEPT !.n = IF d.st = "ok" THEN Len(row_numbers) ELSE 0]
    IN Deleted(delete_rows(fs, table, Range(row_numbers)))

\* data_from_token
data_from_token(token) ==
    CASE token.t = "NumberLiteral" -> [tag |-> "INT", v |-> token.v]
      [] token.t = "StringLiteral" -> DString(token.v)
      [] token.t = "FloatNumberLiteral" -> [tag |-> "FLOAT", v |-> token.v]
      [] token.t = "BoolLiteral" -> [tag |-> "BOOLEAN", v |-> token.v]
      [] OTHER -> NULL

\* the checks of process_insert_query on the column list: "" when they pass
InsertColumnsError(q, table) ==
    IF q.columns = <<>>
    THEN IF Len(q.values) # Len(table.columns) THEN "IncorrectNumberOfValues" ELSE ""
    ELSE LET bad == {k \in 1..Len(q.columns) :
                        \/ ColPos(table, q.columns[k]) = 0
                        \/ \E j \in 1..(k - 1) : q.columns[j] = q.columns[k]}
         IN IF bad = {} THEN ""
            ELSE IF ColPos(table, q.columns[Min(bad)]) = 0 THEN "ColumnNotExists"
            ELSE "DuplicateColumn"

\* insert_values of process_insert_query: for each column of the table the
\* value given for its name (data_map), NULL when there is none
insert_values(q, table) ==
    LET columns == IF q.columns = <<>>
                   THEN [i \in 1..Len(table.columns) |-> table.columns[i].name]
                   ELSE q.columns
    IN [i \in 1..Len(table.columns) |->
          LET ks == {k \in 1..Len(columns) : columns[k] = table.columns[i].name}
          IN IF ks = {} THEN NULL
             ELSE data_from_token(q.values[CHOOSE k \in ks : \A j \in ks : j <= k])]

\* the datatype check of process_insert_query started at the second value
TypesMatchFromSecond(vals, table) ==
    \A i \in 2..Len(vals) :
        vals[i] = NULL \/ is_valid_data_for_type(vals[i], table.columns[i].data_type)

\* the datatype check of process_insert_query
TypesMatch(vals, table) ==
    \A i \in 1..Len(vals) :
        vals[i] = NULL \/ is_valid_data_for_type(vals[i], table.columns[i].data_type)

\* process_insert_query with the checks of the column list reported only
\* after Table::insert_row has written the row
InsertBodyInsertFirst(q, fs) ==
    LET Checked(table, error, vals) ==
            IF error \in {"ColumnNotExists", "DuplicateColumn"}
            THEN Res("err", error, insert_row(fs, table, vals).fs)
            ELSE IF error # "" THEN Res("err", error, fs)
            ELSE IF ~TypesMatch(vals, table) THEN Res("err", "InvalidDataType", fs)
            ELSE Fail(insert_row(fs, table, vals), insert_row(fs, table, vals).fs)
        Loaded(t) ==
            IF t.st # "ok" THEN Fail(t, fs)
            ELSE Checked(t.table, InsertColumnsError(q, t.table), insert_values(q, t.table))
    IN Loaded(Load(fs, q.table_name))

\* process_insert_query, between the lock and the return
InsertBody(q, fs) ==
    LET Inserted(r) == Res(r.st, r.err, r.fs)
        Checked(table, error, vals) ==
            IF error # "" THEN Res("err", error, fs)
            ELSE IF ~TypesMatch(vals, table) THEN Res("err", "InvalidDataType", fs)
            ELSE Inserted(insert_row(fs, table, vals))
        Loaded(t) ==
            IF t.st # "ok" THEN Fail(t, fs)
            ELSE Checked(t.table, InsertColumnsError(q, t.table), insert_values(q, t.table))
    IN Loaded(Load(fs, q.table_name))

\* process_create_index_query, between the lock and the return
CreateIndexBody(q, fs) ==
    LET Added(r) == Res(r.st, r.err, r.fs)
        Loaded(t) ==
            IF t.st # "ok" THEN Fail(t, fs)
            ELSE IF ColPos(t.table, q.column_name) = 0 THEN Res("err", "ColumnNotExists", fs)
            ELSE Added(add_index(fs, t.table, ColPos(t.table, q.column_name)))
    IN Loaded(Load(fs, q.table_name))

\* process_drop_index_query, between the lock and the return
DropIndexBody(q, fs) ==
    LET Removed(r) == Res(r.st, r.err, r.fs)
        Loaded(t) ==
            IF t.st # "ok" THEN Fail(t, fs)
            ELSE IF ColPos(t.table, q.column_name) = 0 THEN Res("err", "ColumnNotExists", fs)
            ELSE Removed(remove_index(fs, t.table, ColPos(t.table, q.column_name)))
    IN Loaded(Load(fs, q.table_name))

\* from_string_to_data_type; the lexer only makes these four DataType tokens
from_string_to_data_type(data_type) ==
    CASE data_type = "varchar" -> DT_STRING(VarcharSize)
      [] data_type = "int" -> DT_INT
      [] data_type = "boolean" -> DT_BOOLEAN
      [] data_type = "float" -> DT_FLOAT

\* the Table that create_info_table creates
InfoTable ==
    [name |-> TABLES_INFO_NAME,
     columns |-> <<Column(TableNameCol, DT_STRING(VarcharSize), FALSE),
                   Column(ColumnsCountCol, DT_INT, FALSE)>>]

\* the query add_to_info_table formats and parses
InfoInsert(table_name, cols_count) ==
    Insert(<<StringLiteral(table_name), NumberLiteral(cols_count)>>, <<>>, TABLES_INFO_NAME)

\* the query remove_from_info_table formats and parses
InfoDelete(table_name) ==
    Delete(TABLES_INFO_NAME,
           Binary(Leaf(Identifier(TableNameCol)), CompareOp("="),
                  Leaf(StringLiteral(table_name))))

\* process_create_table_query with Table::create ahead of the existence check
CreateTableBodyCreateFirst(q, fs) ==
    LET table == [name |-> q.table_name,
                  columns |-> [i \in 1..Len(q.columns_definition) |->
                                 Column(q.columns_definition[i][1],
                                        from_string_to_data_type(q.columns_definition[i][2]),
                                        FALSE)]]
    IN IF Load(fs, q.table_name).st = "ok"
       THEN Res("err", "TableAlreadyExists", create(fs, table).fs)
       ELSE Res("ok", "", create(fs, table).fs)

\* process_create_table_query from the lock up to the process_query call of
\* add_to_info_table
CreateTableBody(q, fs) ==
    LET table == [name |-> q.table_name,
                  columns |-> [i \in 1..Len(q.columns_definition) |->
                                 Column(q.columns_definition[i][1],
                                        from_string_to_data_type(q.columns_definition[i][2]),
                                        FALSE)]]
        AddInfo(fs1, table_exists) ==
            IF table_exists.st = "panic" THEN Res("panic", "", fs1)
            ELSE IF table_exists.st = "err" THEN Res("ok", "", create(fs1, InfoTable).fs)
            ELSE Res("ok", "", fs1)
        Create(fs1) == AddInfo(fs1, Load(fs1, TABLES_INFO_NAME))
        Loaded(t) ==
            IF t.st = "ok" THEN Res("err", "TableAlreadyExists", fs)
            ELSE IF t.st = "panic" THEN Res("panic", "", fs)
            ELSE Create(create(fs, table).fs)
    IN Loaded(Load(fs, q.table_name))

\* process_drop_table_query from the lock up to the process_query call of
\* remove_from_info_table
DropTableBody(q, fs) ==
    LET Dropped(d) == Res(d.st, d.err, d.fs)
        Loaded(t) == IF t.st # "ok" THEN Fail(t, fs) ELSE Dropped(drop(fs, t.table))
    IN Loaded(Load(fs, q.table_name))

(***************************************************************************)
(* Lock registry (common/src/models/acid_sync.rs).  rw maps the table      *)
(* names of the registry to their RwLock: w is the thread that holds the   *)
(* lock for writing (0: nobody), r the threads that hold it for reading,   *)
(* p whether it is poisoned (a thread panicked while it held it for        *)
(* writing), id the allocation Arc::new made for it (the identity of the   *)
(* lock object the Arc clones point to).                                   *)
(***************************************************************************)
NewLock == [w |-> 0, r |-> {}, p |-> FALSE, id |-> 0]

\* Arc::new(RwLock::new(())): an allocation no entry of the registry has
Arc_new(registry) ==
    [NewLock EXCEPT !.id = Cardinality({registry[n].id : n \in DOMAIN registry}) + 1]

\* get_rw_lock with insert in the place of entry().or_insert_with()
get_rw_lock_insert(registry, table_name) ==
    [n \in DOMAIN registry \cup {table_name} |->
        IF n = table_name
        THEN [NewLock EXCEPT !.id = IF n \in DOMAIN registry THEN registry[n].id + NThreads + 2
                                    ELSE Arc_new(registry).id]
        ELSE registry[n]]

\* AcidSync::get_rw_lock: the entry of table_name, inserted when absent
get_rw_lock(registry, table_name) ==
    [n \in DOMAIN registry \cup {table_name} |->
        IF n \in DOMAIN registry THEN registry[n] ELSE Arc_new(registry)]

\* every handler but process_delete_query takes rw_lock.write()
IsWriterButDelete(q) == q.kind # "Delete"

\* the handlers that take the lock with write(); the others take it with read()
IsWriter(q) == q.kind \in {"Insert", "CreateTable", "DropTable", "CreateIndex", "DropIndex"}

\* the guards of thread i are dropped at the return of its handlers
Release(registry, i) ==
    [n \in DOMAIN registry |->
        [w |-> IF registry[n].w = i THEN 0 ELSE registry[n].w,
         r |-> registry[n].r \ {i},
         p |-> registry[n].p,
         id |-> registry[n].id]]

\* the guards of thread i are dropped while it panics: the locks it held
\* for writing are poisoned
Unwind(registry, i) ==
    [n \in DOMAIN registry |->
        [w |-> IF registry[n].w = i THEN 0 ELSE registry[n].w,
         r |-> registry[n].r \ {i},
         p |-> registry[n].p \/ registry[n].w = i,
         id |-> registry[n].id]]

\* the query a handler hands to process_query while it holds its lock
Nested(q) ==
    CASE q.kind = "CreateTable" -> InfoInsert(q.table_name, Len(q.columns_definition))
      [] q.kind = "DropTable" -> InfoDelete(q.table_name)
      [] OTHER -> Query("None", <<>>)

\* what a handler other than DELETE does between the lock and its return
\* or its nested call
Body(q, fs) ==
    CASE q.kind = "Select" -> SelectBody(q, fs)
      [] q.kind = "Insert" -> InsertBody(q, fs)
      [] q.kind = "CreateIndex" -> CreateIndexBody(q, fs)
      [] q.kind = "DropIndex" -> DropIndexBody(q, fs)
      [] q.kind = "CreateTable" -> CreateTableBody(q, fs)
      [] q.kind = "DropTable" -> DropTableBody(q, fs)

(***************************************************************************)
(* State: the working directory, the lock registry and the client threads  *)
(* that call process_query.  A thread is at pc                             *)
(*   "idle"     outside process_query,                                     *)
(*   "sync_guard" in get_rw_lock, holding the mutex of the registry (only  *)
(*              where get_rw_lock is taken in two steps),                  *)
(*   "lock"     before rw_lock.write() / read() of the handler of its      *)
(*              query, or of the nested query when nested is TRUE,         *)
(*   "body"     after it, holding the lock,                                *)
(*   "delete"   in process_delete_query before table.delete_rows,          *)
(*   "create_info_table" in add_to_info_table before create_info_table     *)
(*              (only where add_to_info_table is taken in two steps),      *)
(*   "done"     at the return of process_query, with its result,           *)
(*   "blocked"  in a write() / read() that never returns.                  *)
(* A thread that calls one function on its own is at "to_bytes",           *)
(* "from_bytes", "lex", "parse" or "evaluate" before the call of that      *)
(* name (input is the text handed to lex, lexemes what tokenize made), and *)
(* at "hang" in a call of parse that never returns; tokens are the tokens  *)
(* of the lexer that it hands to parse_query.                              *)
(***************************************************************************)
VARIABLES
    fs,     \* the working directory
    rw,     \* the lock registry
    th      \* the client threads

vars == <<fs, rw, th>>

Idle ==
    [pc |-> "idle", q |-> Query("None", <<>>), nested |-> FALSE, table |-> NoTable,
     row_numbers |-> <<>>, st |-> "", err |-> "", rows |-> <<>>, n |-> 0,
     tokens |-> <<>>, rw_lock |-> 0, input |-> <<>>, lexemes |-> <<>>]

Init ==
    /\ fs = << >>
    /\ rw = << >>
    /\ th = [i \in 1..NThreads |-> Idle]

\* the query whose handler thread record t is in
Cur(t) == IF t.nested THEN Nested(t.q) ELSE t.q

\* the row file of the table holds MaxRows rows or more
RowFileFull(dir, name) ==
    /\ Load(dir, name).st = "ok"
    /\ name \o RowsSuffix \in DOMAIN dir
    /\ Len(dir[name \o RowsSuffix].bytes) >= MaxRows * get_row_size(Load(dir, name).table.columns)

\* thread i calls process_query(q): lib.rs dispatches to the handler, which
\* fetches the lock of its table from the registry
Call(i, q) ==
    /\ th[i].pc = "idle"
    /\ q.kind = "Insert" => ~RowFileFull(fs, q.table_name)
    /\ q.kind = "CreateTable" => ~RowFileFull(fs, TABLES_INFO_NAME)
    /\ th' = [th EXCEPT ![i] = [Idle EXCEPT !.pc = "lock", !.q = q,
                                            !.rw_lock = get_rw_lock(rw, q.table_name)[q.table_name].id]]
    /\ rw' = get_rw_lock(rw, q.table_name)
    /\ UNCHANGED fs

\* thread i calls process_query(q) and, in get_rw_lock, takes the mutex of
\* the registry: self.0.lock().unwrap(); the mutex is held by the thread
\* that is between this step and the return of get_rw_lock
Sync_lock(i, q) ==
    /\ th[i].pc = "idle"
    /\ \A j \in 1..NThreads : th[j].pc # "sync_guard"
    /\ q.kind = "Insert" => ~RowFileFull(fs, q.table_name)
    /\ q.kind = "CreateTable" => ~RowFileFull(fs, TABLES_INFO_NAME)
    /\ th' = [th EXCEPT ![i] = [Idle EXCEPT !.pc = "sync_guard", !.q = q]]
    /\ UNCHANGED <<fs, rw>>

\* the rest of get_rw_lock: entry(table_name).or_insert_with(..), Arc::clone
\* and the drop of sync_guard at the return
Get_rw_lock(i) ==
    /\ th[i].pc = "sync_guard"
    /\ rw' = get_rw_lock(rw, th[i].q.table_name)
    /\ th' = [th EXCEPT ![i] = [@ EXCEPT !.pc = "lock",
                                         !.rw_lock = rw'[th[i].q.table_name].id]]
    /\ UNCHANGED fs

\* process_query of thread i ends with result r (a return or a panic)
Returns(i, r) ==
    /\ th' = [th EXCEPT ![i] = [@ EXCEPT !.pc = "done", !.st = r.st, !.err = r.err,
                                         !.rows = r.rows, !.n = r.n]]
    /\ rw' = IF r.st = "panic" THEN Unwind(rw, i) ELSE Release(rw, i)

\* rw_lock.write().unwrap() / rw_lock.read().unwrap().  A thread that asks
\* for a lock it holds itself deadlocks or panics, as the platform's RwLock
\* decides; on a poisoned lock unwrap panics
Lock(i) ==
    /\ th[i].pc = "lock"
    /\ UNCHANGED fs
    /\ LET c == Cur(th[i])
           l == rw[c.table_name]
       IN IF l.w = i
          THEN \E o \in {"blocked", "panic"} :
                  IF o = "blocked"
                  THEN th' = [th EXCEPT ![i].pc = "blocked"] /\ UNCHANGED rw
                  ELSE Returns(i, Res("panic", "", fs))
          ELSE /\ l.w = 0
               /\ IsWriter(c) => l.r = {}
               /\ IF l.p THEN Returns(i, Res("panic", "", fs))
                  ELSE /\ th' = [th EXCEPT ![i].pc = "body"]
                       /\ rw' = [rw EXCEPT ![c.table_name] =
                                    IF IsWriter(c) THEN [@ EXCEPT !.w = i]
                                    ELSE [@ EXCEPT !.r = @ \cup {i}]]

\* thread i ends the handler it is in with result r of its body: a
\* CREATE / DROP TABLE that got this far calls process_query again
Ends(i, r) ==
    /\ fs' = r.fs
    /\ IF r.st = "ok" /\ ~th[i].nested /\ th[i].q.kind \in {"CreateTable", "DropTable"}
       THEN /\ \A j \in 1..NThreads : th[j].pc # "sync_guard"
            /\ th' = [th EXCEPT ![i] = [@ EXCEPT !.pc = "lock", !.nested = TRUE,
                                                 !.rw_lock = get_rw_lock(rw, TABLES_INFO_NAME)[TABLES_INFO_NAME].id]]
            /\ rw' = get_rw_lock(rw, TABLES_INFO_NAME)
       ELSE Returns(i, IF th[i].nested THEN Res(r.st, r.err, r.fs) ELSE r)

\* the first part of process_delete_query: Table::load and
\* get_rows_for_where_condition
DeleteWhere(i, c) ==
    LET Where(table, row_numbers) ==
            IF row_numbers.st # "ok" THEN Ends(i, Fail(row_numbers, fs))
            ELSE /\ th' = [th EXCEPT ![i] = [@ EXCEPT !.pc = "delete", !.table = table,
                                                      !.row_numbers = row_numbers.row_numbers]]
                 /\ UNCHANGED <<fs, rw>>
        Loaded(t) ==
            IF t.st # "ok" THEN Ends(i, Fail(t, fs))
            ELSE Where(t.table, get_rows_for_where_condition(fs, t.table, c.where_body))
    IN Loaded(Load(fs, c.table_name))

\* thread i runs the handler of its query under the lock
Run(i) ==
    /\ th[i].pc = "body"
    /\ IF Cur(th[i]).kind = "Delete" THEN DeleteWhere(i, Cur(th[i]))
       ELSE Ends(i, Body(Cur(th[i]), fs))

\* the second part of process_delete_query: table.delete_rows and the message
Delete_rows(i) ==
    /\ th[i].pc = "delete"
    /\ Ends(i, DeleteRows(fs, th[i].table, th[i].row_numbers))

\* process_create_table_query from the lock up to the Table::load of
\* add_to_info_table, as a step of its own: the thread holds the lock of its
\* table, not the lock of all_tables
Create(i) ==
    /\ th[i].pc = "body" /\ ~th[i].nested /\ th[i].q.kind = "CreateTable"
    /\ LET q == th[i].q
           table == [name |-> q.table_name,
                     columns |-> [k \in 1..Len(q.columns_definition) |->
                                    Column(q.columns_definition[k][1],
                                           from_string_to_data_type(q.columns_definition[k][2]),
                                           FALSE)]]
           AddInfo(fs1, table_exists) ==
               IF table_exists.st = "panic" THEN Ends(i, Res("panic", "", fs1))
               ELSE IF table_exists.st = "err"
               THEN /\ th' = [th EXCEPT ![i].pc = "create_info_table"]
                    /\ fs' = fs1
                    /\ UNCHANGED rw
               ELSE Ends(i, Res("ok", "", fs1))
           Created(fs1) == AddInfo(fs1, Load(fs1, TABLES_INFO_NAME))
           Loaded(t) ==
               IF t.st = "ok" THEN Ends(i, Res("err", "TableAlreadyExists", fs))
               ELSE IF t.st = "panic" THEN Ends(i, Res("panic", "", fs))
               ELSE Created(create(fs, table).fs)
       IN Loaded(Load(fs, q.table_name))

\* create_info_table of add_to_info_table, after table_exists.is_err(), and
\* the process_query call of the INSERT INTO all_tables
Create_info_table(i) ==
    /\ th[i].pc = "create_info_table"
    /\ Ends(i, Res("ok", "", create(fs, InfoTable).fs))

\* thread i calls Row::to_bytes on its row and keeps the bytes in the row file
To_bytes(i) ==
    /\ th[i].pc = "to_bytes"
    /\ LET Written(b) ==
               IF b.st = "panic" THEN Returns(i, Res("panic", "", fs)) /\ UNCHANGED fs
               ELSE /\ fs' = WriteFile(fs, table_rows_name(th[i].table), BytesFile(b.bytes))
                    /\ th' = [th EXCEPT ![i].pc = "from_bytes"]
                    /\ UNCHANGED rw
       IN Written(RowToBytes(th[i].rows[1], th[i].table.columns))

\* thread i calls Row::from_bytes on the bytes: a slice that ends behind the
\* last byte panics
From_bytes(i) ==
    /\ th[i].pc = "from_bytes"
    /\ UNCHANGED fs
    /\ LET Read(bytes) ==
               IF Len(bytes) < get_row_size(th[i].table.columns)
               THEN Returns(i, Res("panic", "", fs))
               ELSE Returns(i, [Res("ok", "", fs) EXCEPT
                                   !.rows = Append(th[i].rows,
                                                   RowFromBytes(bytes, th[i].table.columns))])
       IN Read(fs[table_rows_name(th[i].table)].bytes)

\* thread i calls lex on its input: the lexemes of tokenize and the tokens
Lex(i) ==
    /\ th[i].pc = "lex"
    /\ LET Lexed(lexemes, r) ==
               th' = [th EXCEPT ![i] = [@ EXCEPT !.pc = "done", !.st = r.st, !.err = r.err,
                                                 !.lexemes = lexemes.tokens,
                                                 !.tokens = r.tokens]]
       IN Lexed(tokenize(th[i].input), lex(th[i].input))
    /\ UNCHANGED <<fs, rw>>

\* thread i calls parse on its tokens; with a WHERE clause it goes on to
\* evaluate it
Parse(i) ==
    /\ th[i].pc = "parse"
    /\ LET Parsed(r) ==
               IF r.st = "hang" THEN th' = [th EXCEPT ![i].pc = "hang"] /\ UNCHANGED rw
               ELSE IF r.st = "ok" /\ r.q.where_body # NoWhere
               THEN th' = [th EXCEPT ![i] = [@ EXCEPT !.pc = "evaluate", !.q = r.q]]
                    /\ UNCHANGED rw
               ELSE /\ th' = [th EXCEPT ![i] = [@ EXCEPT !.pc = "done", !.q = r.q,
                                                         !.st = r.st, !.err = r.err]]
                    /\ UNCHANGED rw
       IN Parsed(parse_query(th[i].tokens))
    /\ UNCHANGED fs

\* thread i calls evaluate_node on the WHERE clause of its query, with the
\* cells of its row in the identifier map, as apply_row_predicate makes it;
\* the value is the cell of its result row
Evaluate(i) ==
    /\ th[i].pc = "evaluate"
    /\ LET Value(v) ==
               Returns(i, [Res(v.st, v.err, fs) EXCEPT
                              !.rows = IF v.st = "ok" THEN <<(<<v.val>>)>> ELSE <<>>])
           Map(table, db_row) ==
               [nm \in {table.columns[k].name : k \in 1..Len(table.columns)} |->
                   db_row[ColPos(table, nm)]]
       IN Value(evaluate_node(th[i].q.where_body, Map(th[i].table, th[i].rows[1])))
    /\ UNCHANGED fs

\* the client takes the result
Return(i) ==
    /\ th[i].pc = "done"
    /\ th' = [th EXCEPT ![i] = Idle]
    /\ UNCHANGED <<fs, rw>>

(***************************************************************************)
(* The clients.  The specifications share the actions above and differ     *)
(* in the queries the clients send and in the grain of the steps:          *)
(*   Spec          one client; tables, inserts, projections, indexes;      *)
(*   SpecWhere     one client; WHERE clauses on a table with indexes;      *)
(*   SpecTables    one client; CREATE / DROP TABLE and the catalog;        *)
(*   SpecThreads   NThreads clients at the same time;                      *)
(*   SpecRegistry  NThreads clients, get_rw_lock in two steps;             *)
(*   SpecCatalog   NThreads clients, add_to_info_table in two steps;       *)
(*   SpecFunctions the codec, the lexer, the parser and the evaluator,     *)
(*                 each called on its own.                                 *)
(***************************************************************************)
\* "t", "x", "y", "z", "a", "b"
tT == <<116>>
tU == <<117>>
cX == <<120>>
cY == <<121>>
cZ == <<122>>
sA == <<97>>
sB == <<98>>

\* a string one byte longer than a varchar column
LongString == [i \in 1..(VarcharSize + 1) |-> 97]

\* (x int, y varchar) and (x int, z float)
SchemaXY == <<(<<cX, "int">>), (<<cY, "varchar">>)>>
SchemaXZ == <<(<<cX, "int">>), (<<cZ, "float">>)>>
SchemaXX == <<(<<cX, "int">>), (<<cX, "varchar">>)>>

Queries ==
    {CreateTable(tT, SchemaXY), CreateTable(tT, SchemaXZ), CreateTable(tT, SchemaXX),
     DropTable(tT),
     Insert(<<NumberLiteral(1), StringLiteral(sA)>>, <<>>, tT),
     Insert(<<NumberLiteral(2), StringLiteral(sB)>>, <<>>, tT),
     Insert(<<NumberLiteral(1), Tok("Null")>>, <<>>, tT),
     Insert(<<NumberLiteral(1), FloatNumberLiteral(3, 2)>>, <<>>, tT),
     Insert(<<NumberLiteral(1), FloatNumberLiteral(0, 1)>>, <<>>, tT),
     Insert(<<StringLiteral(sA), NumberLiteral(1)>>, <<>>, tT),
     Insert(<<StringLiteral(sA), StringLiteral(sB)>>, <<>>, tT),
     Insert(<<NumberLiteral(1)>>, <<>>, tT),
     Insert(<<NumberLiteral(1), StringLiteral(LongString)>>, <<>>, tT),
     Insert(<<NumberLiteral(2)>>, <<cX>>, tT),
     Insert(<<StringLiteral(sB)>>, <<cY>>, tT),
     Insert(<<StringLiteral(sB), NumberLiteral(2)>>, <<cY, cX>>, tT),
     Insert(<<FloatNumberLiteral(3, 2), NumberLiteral(2)>>, <<cZ, cX>>, tT),
     Insert(<<NumberLiteral(1), NumberLiteral(2)>>, <<cX, cX>>, tT),
     Insert(<<NumberLiteral(1), NumberLiteral(2)>>, <<cX, sA>>, tT),
     Select(<<Tok("Star")>>, tT, NoWhere),
     Select(<<Identifier(cY), Identifier(cX)>>, tT, NoWhere),
     Select(<<NumberLiteral(1)>>, tT, NoWhere),
     Select(<<Tok("Star")>>, TABLES_INFO_NAME, NoWhere),
     Delete(tT, NoWhere),
     CreateIndex(cX, tT), CreateIndex(cY, tT), CreateIndex(sA, tT),
     DropIndex(cX, tT), DropIndex(sA, tT)}

\* the WHERE clauses of SpecWhere: x = 1, x = 3, x + 1 = 3, 2 = x, x = NULL,
\* x > 1, y = 'a', x, x / 0 = 1
WhereBodies ==
    LET x == Leaf(Identifier(cX))
        Num(i) == Leaf(NumberLiteral(i))
        Eq(l, r) == Binary(l, CompareOp("="), r)
    IN {Eq(x, Num(1)), Eq(x, Num(3)), Eq(Binary(x, Tok("Plus"), Num(1)), Num(3)),
        Eq(Num(2), x), Eq(x, Leaf(Tok("Null"))), Binary(x, CompareOp(">"), Num(1)),
        Eq(Leaf(Identifier(cY)), Leaf(StringLiteral(sA))), x,
        Eq(Binary(x, Tok("Slash"), Num(0)), Num(1))}

WhereQueries ==
    {CreateTable(tT, SchemaXY),
     Insert(<<NumberLiteral(1), StringLiteral(sA)>>, <<>>, tT),
     Insert(<<NumberLiteral(2), StringLiteral(sB)>>, <<>>, tT),
     Insert(<<NumberLiteral(3), StringLiteral(sA)>>, <<>>, tT),
     Insert(<<Tok("Null"), StringLiteral(sA)>>, <<>>, tT),
     CreateIndex(cX, tT), CreateIndex(cY, tT), DropIndex(cX, tT)}
    \cup {Select(<<Tok("Star")>>, tT, w) : w \in WhereBodies}
    \cup {Delete(tT, w) : w \in WhereBodies}

ThreadQueries ==
    {CreateTable(tT, SchemaXY), CreateTable(TABLES_INFO_NAME, SchemaXY), DropTable(tT),
     Insert(<<NumberLiteral(1), StringLiteral(sA)>>, <<>>, tT),
     Insert(<<NumberLiteral(2), Tok("Null")>>, <<>>, tT),
     Insert(<<NumberLiteral(2), StringLiteral(sB)>>, <<>>, tT),
     Select(<<Tok("Star")>>, tT, NoWhere),
     Delete(tT, NoWhere),
     Delete(tT, Binary(Leaf(Identifier(cX)), CompareOp("="), Leaf(NumberLiteral(1))))}

\* CREATE TABLE and DROP TABLE on two user tables, on the name all_tables
\* and on the name t_rows
TableQueries ==
    {CreateTable(name, columns_definition) :
        name \in {tT, tU, TABLES_INFO_NAME}, columns_definition \in {SchemaXY, SchemaXZ}}
    \cup {DropTable(name) : name \in {tT, tU, TABLES_INFO_NAME}}
    \cup {CreateTable(tT \o RowsSuffix, SchemaXY), DropTable(tT \o RowsSuffix)}

\* the cells of the rows handed to Row::to_bytes, for a column of the type
CellsOf(data_type) ==
    CASE data_type.t = "INT" -> {DInt(1), DInt(-2), NULL}
      [] data_type.t = "STRING" -> {DString(sA), DString(<<>>), NULL}
      [] data_type.t = "BOOLEAN" -> {DBool(TRUE), DBool(FALSE), NULL}
      [] data_type.t = "FLOAT" -> {DFloat(3, 2), DFloat(0, 1), NULL}

\* the tokens of `SELECT * FROM t WHERE` and an expression
Where(expression) ==
    <<Tok("Select"), Tok("Star"), Tok("From"), Identifier(tT), Tok("Where")>> \o expression

\* the tokens of statements of every kind, with and without WHERE
Statements ==
    {<<Tok("Select"), Tok("Star"), Tok("From"), Identifier(tT)>>,
     Where(<<Identifier(cX), CompareOp("="), NumberLiteral(1)>>),
     Where(<<Identifier(cX)>>),
     <<Tok("Insert"), Tok("Into"), Identifier(tT), Tok("Values"),
       Tok("ParOpen"), NumberLiteral(1), Tok("Comma"), StringLiteral(sA), Tok("ParClose")>>,
     <<Tok("Insert"), Tok("Into"), Identifier(tT), Tok("Values"), NumberLiteral(1)>>,
     <<Tok("Insert"), Tok("Into"), Identifier(tT), Tok("ParOpen"), Identifier(cX),
       Tok("ParClose"), Tok("Values"), Tok("ParOpen"), NumberLiteral(1), Tok("ParClose")>>,
     <<Tok("Delete"), Tok("From"), Identifier(tT)>>,
     <<Tok("Delete"), Tok("From"), Identifier(tT), Tok("Where"),
       Identifier(cX), CompareOp("="), NumberLiteral(1)>>,
     <<Tok("Create"), Tok("Table"), Identifier(tT), Identifier(cX),
       [Tok("DataType") EXCEPT !.s = "int"], Tok("Comma"), Identifier(cY),
       [Tok("DataType") EXCEPT !.s = "varchar"]>>,
     <<Tok("Create"), Tok("Table"), Identifier(tT), Tok("ParOpen"), Identifier(cX),
       [Tok("DataType") EXCEPT !.s = "int"], Tok("ParClose")>>,
     <<Tok("Create"), Tok("Index"), Identifier(cX), Tok("On"), Identifier(tT)>>,
     <<Tok("Drop"), Tok("Index"), Identifier(cX), Tok("On"), Identifier(tT)>>,
     <<Tok("Drop"), Tok("Table"), Identifier(tT)>>}

\* what follows a statement: nothing, `;`, or tokens that are left over
LeftOver == {<<Identifier(tU)>>, <<Tok("Semicolon"), Identifier(tU)>>,
             <<Tok("Semicolon"), Tok("Semicolon")>>}

\* NULL, an operator and a right operand
NullExpressions ==
    {<<Tok("Null"), op, right>> :
        op \in {CompareOp(o) : o \in {"=", "<>", "!=", "<", ">", "<=", ">="}}
               \cup {LogicalOp(o) : o \in {"and", "or", "xor"}}
               \cup {Tok(o) : o \in {"Plus", "Minus", "Star", "Slash", "Percent"}},
        right \in {Tok("Null"), NumberLiteral(1), StringLiteral(sA), BoolLiteral(TRUE),
                   FloatNumberLiteral(3, 2), Identifier(cX)}}

\* expressions with the values that standard precedence gives them:
\* 3 = 2 + 1, (11 + 1) / 2 + 6, 1 + 2 * 3, 2 * 3 + 1, 7 - 6 / 2, 7 % 4 * 2,
\* 1 + 1 < 3 and 2 < 1 + 2, false = true xor true, -2 * -3, 2 - -3, (-1) + 2,
\* (+1) + 2, 5 - 3 - 1, 8 / 2 / 2, 2 - 1 + 1
PrecedenceCases ==
    LET N(i) == NumberLiteral(i)
        P == Tok("Plus")  M == Tok("Minus")  S == Tok("Star")  D == Tok("Slash")
        PO == Tok("ParOpen")  PC == Tok("ParClose")
    IN {<<(<<N(3), CompareOp("="), N(2), P, N(1)>>), DBool(TRUE)>>,
        <<(<<PO, N(11), P, N(1), PC, D, N(2), P, N(6)>>), DInt(12)>>,
        <<(<<N(1), P, N(2), S, N(3)>>), DInt(7)>>,
        <<(<<N(2), S, N(3), P, N(1)>>), DInt(7)>>,
        <<(<<N(7), M, N(6), D, N(2)>>), DInt(4)>>,
        <<(<<N(7), Tok("Percent"), N(4), S, N(2)>>), DInt(6)>>,
        <<(<<N(1), P, N(1), CompareOp("<"), N(3), LogicalOp("and"),
             N(2), CompareOp("<"), N(1), P, N(2)>>), DBool(TRUE)>>,
        <<(<<BoolLiteral(FALSE), CompareOp("="), BoolLiteral(TRUE), LogicalOp("xor"),
             BoolLiteral(TRUE)>>), DBool(TRUE)>>,
        <<(<<M, N(2), S, M, N(3)>>), DInt(6)>>,
        <<(<<N(2), M, M, N(3)>>), DInt(5)>>,
        <<(<<PO, M, N(1), PC, P, N(2)>>), DInt(1)>>,
        <<(<<PO, P, N(1), PC, P, N(2)>>), DInt(3)>>,
        <<(<<N(5), M, N(3), M, N(1)>>), DInt(1)>>,
        <<(<<N(8), D, N(2), D, N(2)>>), DInt(2)>>,
        <<(<<N(2), M, N(1), P, N(1)>>), DInt(2)>>}

\* a op b op c with two operators of one precedence level, over integers
GroupingCases ==
    {<<NumberLiteral(a), ops[1], NumberLiteral(b), ops[2], NumberLiteral(c)>> :
        a \in {1, 2, 5}, b \in {1, 2, 5}, c \in {1, 2, 5},
        ops \in {<<Tok("Minus"), Tok("Minus")>>, <<Tok("Slash"), Tok("Slash")>>,
                 <<Tok("Star"), Tok("Percent")>>}}

\* the texts handed to lex: a quote, up to MaxLiteral chars out of " ' \ a
\* and space, and a quote
RECURSIVE Texts(_)
Texts(n) ==
    IF n = 0 THEN {<<>>}
    ELSE Texts(n - 1) \cup {Append(text, ch) : text \in Texts(n - 1), ch \in {34, 39, 92, 97, 32}}
LiteralInputs ==
    {<<open>> \o text \o <<close>> :
        open \in {34, 39}, text \in Texts(MaxLiteral), close \in {34, 39}}

\* a caller of the functions of the row codec, the parser and the evaluator:
\* the rows with their columns, and the tokens of the queries with a row
\* (x = 1) for the identifiers
FunctionInputs ==
    UNION {{[Idle EXCEPT !.pc = "to_bytes",
                         !.table = [name |-> tT,
                                    columns |-> <<Column(cX, dts[1], FALSE),
                                                  Column(cY, dts[2], FALSE)>>],
                         !.rows = <<row>>] :
               row \in CellsOf(dts[1]) \X CellsOf(dts[2])} :
           dts \in {DT_INT, DT_STRING(VarcharSize), DT_BOOLEAN, DT_FLOAT}
                   \X {DT_INT, DT_STRING(VarcharSize), DT_BOOLEAN, DT_FLOAT}}
    \cup {[Idle EXCEPT !.pc = "parse", !.tokens = tokens,
                       !.table = [name |-> tT, columns |-> <<Column(cX, DT_INT, FALSE)>>],
                       !.rows = <<(<<DInt(1)>>)>>] :
            tokens \in {statement \o rest : statement \in Statements,
                                            rest \in LeftOver \cup {<<>>, <<Tok("Semicolon")>>}}
                       \cup {Where(expression) : expression \in NullExpressions}
                       \cup {Where(c[1]) : c \in PrecedenceCases}
                       \cup {Where(expression) : expression \in GroupingCases}}
    \cup {[Idle EXCEPT !.pc = "lex", !.input = input] : input \in LiteralInputs}

\* a step of a thread inside process_query
Step(i) == Lock(i) \/ Run(i) \/ Delete_rows(i)

Client == \E q \in Queries : Call(1, q)
TableClient == \E q \in TableQueries : Call(1, q)
WhereClient == \E q \in WhereQueries : Call(1, q)
ThreadClient == \E i \in 1..NThreads : \E q \in ThreadQueries : Call(i, q)
Server == \E i \in 1..NThreads : Step(i)
Result == \E i \in 1..NThreads : Return(i)

Next == Client \/ Server \/ Result
NextWhere == WhereClient \/ Server \/ Result
NextThreads == ThreadClient \/ Server \/ Result
NextTables == TableClient \/ Server \/ Result

Spec == Init /\ [][Next]_vars
SpecWhere == Init /\ [][NextWhere]_vars
SpecTables == Init /\ [][NextTables]_vars

\* the clients of the lock registry: calls on the names t and u, with
\* get_rw_lock taken in two steps
RegistryQueries ==
    {CreateTable(tT, SchemaXY),
     Insert(<<NumberLiteral(1), StringLiteral(sA)>>, <<>>, tT),
     Select(<<Tok("Star")>>, tT, NoWhere),
     Delete(tT, NoWhere),
     Select(<<Tok("Star")>>, tU, NoWhere),
     Insert(<<NumberLiteral(1), StringLiteral(sA)>>, <<>>, tU)}
RegistryClient == \E i \in 1..NThreads : \E q \in RegistryQueries : Sync_lock(i, q)
NextRegistry ==
    RegistryClient \/ (\E i \in 1..NThreads : Get_rw_lock(i)) \/ Server \/ Result
SpecRegistry == Init /\ [][NextRegistry]_vars

\* the clients of the catalog: CREATE TABLE on the names t and u at the same
\* time, with add_to_info_table taken in two steps
CatalogQueries ==
    {CreateTable(tT, SchemaXY), CreateTable(tU, SchemaXZ),
     Select(<<Tok("Star")>>, TABLES_INFO_NAME, NoWhere)}
CatalogClient == \E i \in 1..NThreads : \E q \in CatalogQueries : Call(i, q)
NextCatalog ==
    \/ CatalogClient
    \/ \E i \in 1..NThreads : Lock(i) \/ Create(i) \/ Create_info_table(i)
    \/ \E i \in 1..NThreads : (th[i].nested \/ th[i].q.kind # "CreateTable") /\ Run(i)
    \/ Result
SpecCatalog == Init /\ [][NextCatalog]_vars

\* the scheduler runs every thread that can take a step
SpecThreads == Init /\ [][NextThreads]_vars /\ \A i \in 1..NThreads : WF_vars(Step(i))

\* the functions of the row codec, the parser and the evaluator, called on
\* their own
InitFunctions ==
    /\ fs = << >>
    /\ rw = << >>
    /\ \E input \in FunctionInputs :
          th = [i \in 1..NThreads |-> IF i = 1 THEN input ELSE Idle]
NextFunctions ==
    \E i \in 1..NThreads : To_bytes(i) \/ From_bytes(i) \/ Lex(i) \/ Parse(i) \/ Evaluate(i)
SpecFunctions == InitFunctions /\ [][NextFunctions]_vars

(***************************************************************************)
(* Properties of one client's calls (Spec).                                *)
(***************************************************************************)
\* thread i ends its process_query call in this step
Finishes(i) == th[i].pc \notin {"idle", "done"} /\ th'[i].pc = "done"

\* C4: process_query ends every call by returning Ok or Err: no call ends in
\* a panic, whatever the SELECT body items, the WHERE arithmetic or the
\* length of the string values.
C4_NeverPanics ==
    \A i \in 1..NThreads : th[i].pc = "done" => th[i].st \in {"ok", "err"}

\* C8: an INSERT that is rejected with IncorrectNumberOfValues,
\* ColumnNotExists, DuplicateColumn or InvalidDataType leaves every file of
\* the working directory, so the row file and the index files of its table,
\* as it was before the call.
C8_RejectedInsertAppendsNothing ==
    [][\A i \in 1..NThreads :
          (/\ Finishes(i)
           /\ th[i].q.kind = "Insert"
           /\ th'[i].st = "err"
           /\ th'[i].err \in {"IncorrectNumberOfValues", "ColumnNotExists",
                              "DuplicateColumn", "InvalidDataType"})
          => fs' = fs]_vars

\* C8: an INSERT into a table with a row and an index on x has been rejected
\* with InvalidDataType.
C8_Witness ==
    /\ th[1].pc = "done"
    /\ th[1].q.kind = "Insert"
    /\ th[1].err = "InvalidDataType"
    /\ tT \o cX \o IndexSuffix \in DOMAIN fs
    /\ tT \o RowsSuffix \in DOMAIN fs
    /\ fs[tT \o RowsSuffix].bytes # <<>>

\* C9: an INSERT with a column list that passes the checks of the handler
\* succeeds and appends one row to the rows SELECT * returns: the row that
\* holds, in the table's column order, the value given for each named column
\* and NULL in every other column.
C9_ColumnListInsertStoresRow ==
    [][\A i \in 1..NThreads :
          (/\ th[i].pc = "body" /\ th'[i] # th[i]
           /\ th[i].q.kind = "Insert" /\ th[i].q.columns # <<>>
           /\ Load(fs, th[i].q.table_name).st = "ok"
           /\ from_table(fs, Load(fs, th[i].q.table_name).table).st = "ok"
           /\ InsertColumnsError(th[i].q, Load(fs, th[i].q.table_name).table) = ""
           /\ TypesMatch(insert_values(th[i].q, Load(fs, th[i].q.table_name).table),
                         Load(fs, th[i].q.table_name).table))
          => LET q == th[i].q
                 table == Load(fs, q.table_name).table
                 named(j) == {k \in 1..Len(q.columns) : q.columns[k] = table.columns[j].name}
                 row == [j \in 1..Len(table.columns) |->
                           IF named(j) = {} THEN NULL
                           ELSE data_from_token(q.values[CHOOSE k \in named(j) : TRUE])]
             IN /\ th'[i].pc = "done" /\ th'[i].st = "ok"
                /\ from_table(fs', table).st = "ok"
                /\ from_table(fs', table).rows = Append(from_table(fs, table).rows, row)]_vars

\* C10: CREATE TABLE on a table whose header loads ends with
\* TableAlreadyExists and leaves every file of the working directory, so the
\* table's files and the all_tables catalog, as it was before the call.
C10_CreateExistingChangesNothing ==
    [][\A i \in 1..NThreads :
          (/\ th[i].pc = "body" /\ th'[i] # th[i]
           /\ ~th[i].nested /\ th[i].q.kind = "CreateTable"
           /\ Load(fs, th[i].q.table_name).st = "ok")
          => /\ th'[i].pc = "done"
             /\ th'[i].st = "err" /\ th'[i].err = "TableAlreadyExists"
             /\ fs' = fs]_vars

\* C10: CREATE TABLE t has ended with TableAlreadyExists on a table t that
\* holds a row and is listed in all_tables.
C10_Witness ==
    /\ th[1].pc = "done"
    /\ th[1].q.kind = "CreateTable"
    /\ th[1].err = "TableAlreadyExists"
    /\ tT \o RowsSuffix \in DOMAIN fs
    /\ fs[tT \o RowsSuffix].bytes # <<>>
    /\ TABLES_INFO_NAME \o RowsSuffix \in DOMAIN fs
    /\ fs[TABLES_INFO_NAME \o RowsSuffix].bytes # <<>>

\* every cell of the row is NULL or a value of the type of its column
CellsTyped(row, columns) ==
    /\ Len(row) = Len(columns)
    /\ \A k \in 1..Len(row) :
          row[k] = NULL \/ is_valid_data_for_type(row[k], columns[k].data_type)

\* C11: every cell stored in a table and every cell a SELECT returns is NULL
\* or a value of the declared type of its column: an INSERT that changes the
\* files of the table has passed a row of such cells to insert_row, and the
\* rows of a SELECT that returns Ok have such cells for the projected columns.
C11_CellsHaveColumnType ==
    [][\A i \in 1..NThreads :
          /\ (/\ th[i].pc = "body" /\ Cur(th[i]).kind = "Insert"
              /\ fs' # fs)
             => /\ Load(fs, Cur(th[i]).table_name).st = "ok"
                /\ LET Typed(table) == CellsTyped(insert_values(Cur(th[i]), table),
                                                  table.columns)
                   IN Typed(Load(fs, Cur(th[i]).table_name).table)
          /\ (/\ Finishes(i) /\ th[i].q.kind = "Select" /\ th'[i].st = "ok")
             => LET Typed(table, columns) ==
                        \A n \in 1..Len(th'[i].rows) :
                            CellsTyped(th'[i].rows[n],
                                       [k \in 1..Len(columns) |-> table.columns[columns[k]]])
                IN Typed(Load(fs, th[i].q.table_name).table,
                         get_projection_columns(th[i].q.body,
                                                Load(fs, th[i].q.table_name).table).columns)
      ]_vars

\* C11: SELECT y, x FROM t has returned a row with a STRING cell and a NULL cell
\* from a table whose row an INSERT with a column list has stored.
C11_Witness ==
    /\ th[1].pc = "done"
    /\ th[1].q.kind = "Select"
    /\ th[1].q.body = <<Identifier(cY), Identifier(cX)>>
    /\ th[1].st = "ok"
    /\ \E n \in 1..Len(th[1].rows) : th[1].rows[n] = <<DString(sB), NULL>>

\* C12: column names are unique within every table: no table whose header
\* CREATE TABLE has written has two columns with the same name.
C12_ColumnNamesUnique ==
    \A name \in {tT, TABLES_INFO_NAME} :
        Load(fs, name).st = "ok"
        => LET Unique(columns) ==
                   \A j, k \in 1..Len(columns) :
                       columns[j].name = columns[k].name => j = k
           IN Unique(Load(fs, name).table.columns)

\* C28: a query that failed or aborted while it held the write lock of a
\* table leaves the lock usable: no lock of the registry is ever poisoned,
\* and a later query that asks for a lock no thread holds gets it and goes
\* on to its body.
C28_LockStaysUsable ==
    [][/\ \A name \in DOMAIN rw' : ~rw'[name].p
       /\ \A i \in 1..NThreads :
             (/\ th[i].pc = "lock" /\ th'[i] # th[i]
              /\ rw[Cur(th[i]).table_name].w = 0
              /\ rw[Cur(th[i]).table_name].r = {})
             => th'[i].pc = "body"]_vars

\* C20: every row written to the row file occupies row_size bytes, the sum
\* of the column widths, also when it has NULL cells in STRING columns: an
\* insert_row lengthens the row file by row_size, and after any inserts and
\* deletes the row file is a whole number of rows of row_size bytes.
C20_RowsOccupyRowSize ==
    [][\A name \in {tT, TABLES_INFO_NAME} :
          (Load(fs', name).st = "ok" /\ name \o RowsSuffix \in DOMAIN fs')
          => LET row_size == get_row_size(Load(fs', name).table.columns)
                 length == Len(fs'[name \o RowsSuffix].bytes)
             IN /\ length % row_size = 0
                /\ \A i \in 1..NThreads :
                      (/\ th[i].pc = "body" /\ th'[i] # th[i]
                       /\ Cur(th[i]).kind = "Insert" /\ Cur(th[i]).table_name = name
                       /\ fs' # fs)
                      => length = Len(fs[name \o RowsSuffix].bytes) + row_size]_vars

\* C22: insert_row(r) on a table that holds n rows leaves the rows 0..n-1 as
\* they were and puts r at position n: afterwards the table holds n + 1
\* rows, seek_row(n) returns r and seek_row(k) for k < n returns the row it
\* returned before.
C22_InsertRowAppends ==
    [][\A i \in 1..NThreads :
          (/\ th[i].pc = "body" /\ th'[i] # th[i]
           /\ Cur(th[i]).kind = "Insert"
           /\ Load(fs, Cur(th[i]).table_name).st = "ok"
           /\ from_table(fs, Load(fs, Cur(th[i]).table_name).table).st = "ok"
           /\ InsertColumnsError(Cur(th[i]), Load(fs, Cur(th[i]).table_name).table) = ""
           /\ TypesMatch(insert_values(Cur(th[i]), Load(fs, Cur(th[i]).table_name).table),
                         Load(fs, Cur(th[i]).table_name).table))
          => LET Appended(table, n, r) ==
                     /\ \A k \in 0..(n - 1) : seek_row(fs', table, k) = seek_row(fs, table, k)
                     /\ seek_row(fs', table, n).st = "ok"
                     /\ \A c \in 1..Len(r) : DataEq(seek_row(fs', table, n).row[c], r[c])
                     /\ seek_row(fs', table, n + 1).st = "err"
                     /\ Len(fs'[table_rows_name(table)].bytes)
                          = (n + 1) * get_row_size(table.columns)
                 Inserted(table) ==
                     Appended(table, Len(from_table(fs, table).rows),
                              insert_values(Cur(th[i]), table))
             IN Inserted(Load(fs, Cur(th[i]).table_name).table)]_vars

\* the files of a table: its header file, its row file and the index files
\* of the columns whose is_indexed flag is set in the header
FilesOf(table) ==
    {table.name, table_rows_name(table)}
    \cup {get_index_file_name(table, table.columns[c]) :
            c \in {k \in 1..Len(table.columns) : table.columns[k].is_indexed}}

RowMap(row, table) ==
    [nm \in {table.columns[j].name : j \in 1..Len(table.columns)} |->
        row[ColPos(table, nm)]]

\* the WHERE predicate evaluates to Bool(true) on the row
IsTrueOn(p, row, table) ==
    LET True(v) == v.st = "ok" /\ v.val = DBool(TRUE)
    IN True(evaluate_node(p, RowMap(row, table)))

\* the WHERE predicate evaluates on the row to a value that is neither a
\* boolean nor NULL
IsNoBoolOn(p, row, table) ==
    LET NoBool(v) == v.st = "ok" /\ v.val.tag \notin {"BOOLEAN", "NULL"}
    IN NoBool(evaluate_node(p, RowMap(row, table)))

\* the rows a SELECT with this body returns for these rows of the table
Projected(rows, body, table) ==
    LET Project(columns) == [k \in 1..Len(rows) |-> project_row(rows[k], columns.columns)]
    IN Project(get_projection_columns(body, table))

\* C5: a DELETE FROM t WHERE p that returns Ok has removed exactly the rows
\* on which p evaluates to true (every row when there is no WHERE): its
\* message counts them and the row file holds the other rows in their
\* earlier order, whether the rows were found by a scan or through an index.
C5_DeleteRemovesSatisfyingRows ==
    [][\A i \in 1..NThreads :
          (/\ th[i].pc = "delete" /\ th'[i].pc = "done" /\ th'[i].st = "ok"
           /\ from_table(fs, th[i].table).st = "ok")
          => LET table == th[i].table
                 p == th[i].q.where_body
                 before == from_table(fs, table).rows
                 Sat(row) == p.kind = "None" \/ IsTrueOn(p, row, table)
             IN /\ th'[i].n = Cardinality({k \in 1..Len(before) : Sat(before[k])})
                /\ from_table(fs', table).st = "ok"
                /\ from_table(fs', table).rows = SelectSeq(before, LAMBDA row : ~Sat(row))]_vars

\* C6: SELECT ... WHERE col = constant, col an indexed column and the
\* constant a literal of col's type, returns Ok with exactly the rows of the
\* row file whose col cell equals the constant, in ascending physical order,
\* whatever inserts and deletes the table has seen.
C6_IndexedEqualitySelect ==
    [][\A i \in 1..NThreads :
          (/\ th[i].pc = "body" /\ th'[i] # th[i]
           /\ th[i].q.kind = "Select"
           /\ Load(fs, th[i].q.table_name).st = "ok"
           /\ from_table(fs, Load(fs, th[i].q.table_name).table).st = "ok"
           /\ get_projection_columns(th[i].q.body, Load(fs, th[i].q.table_name).table).st = "ok"
           /\ LET table == Load(fs, th[i].q.table_name).table
                  p == th[i].q.where_body
              IN /\ p.kind = "Binary" /\ p.op = CompareOp("=")
                 /\ p.left.kind = "Leaf" /\ p.left.tok.t = "Identifier"
                 /\ ColPos(table, p.left.tok.v) # 0
                 /\ table.columns[ColPos(table, p.left.tok.v)].is_indexed
                 /\ p.right.kind = "Leaf"
                 /\ p.right.tok.t \in {"NumberLiteral", "StringLiteral",
                                       "FloatNumberLiteral", "BoolLiteral"}
                 /\ is_valid_data_for_type(data_from_token(p.right.tok),
                        table.columns[ColPos(table, p.left.tok.v)].data_type))
          => LET table == Load(fs, th[i].q.table_name).table
                 p == th[i].q.where_body
                 col == ColPos(table, p.left.tok.v)
                 constant == data_from_token(p.right.tok)
                 matching == SelectSeq(from_table(fs, table).rows,
                                       LAMBDA row : row[col] = constant)
             IN /\ th'[i].pc = "done" /\ th'[i].st = "ok"
                /\ th'[i].rows = Projected(matching, th[i].q.body, table)]_vars

\* C6: SELECT * FROM t WHERE x = 3 has returned the second of two rows
\* through the index on x, whose bucket also holds the first row's x = 1.
C6_Witness ==
    /\ th[1].pc = "done" /\ th[1].st = "ok"
    /\ th[1].q = Select(<<Tok("Star")>>, tT,
                        Binary(Leaf(Identifier(cX)), CompareOp("="), Leaf(NumberLiteral(3))))
    /\ Load(fs, tT).st = "ok"
    /\ Load(fs, tT).table.columns[1].is_indexed
    /\ from_table(fs, Load(fs, tT).table).rows = <<<<DInt(1), DString(sA)>>, <<DInt(3), DString(sA)>>>>
    /\ th[1].rows = <<<<DInt(3), DString(sA)>>>>

WithoutIndexes(dir, table) ==
    WriteFile(dir, table.name,
              HeaderFile([table EXCEPT !.columns =
                             [c \in 1..Len(table.columns) |->
                                 [table.columns[c] EXCEPT !.is_indexed = FALSE]]]))

\* C25: for every table content and every WHERE expression, SELECT and
\* DELETE select the same rows, or fail with the same error, whether or not
\* the referenced column is indexed: the result of every SELECT is the one
\* it has on the table without indexes, and every DELETE selects the rows
\* it selects on the table without indexes.
C25_IndexKeepsResults ==
    [][\A i \in 1..NThreads :
          (/\ th[i].pc = "body" /\ th'[i] # th[i]
           /\ th[i].q.kind \in {"Select", "Delete"}
           /\ Load(fs, th[i].q.table_name).st = "ok")
          => LET SameSelect(r) ==
                     /\ th'[i].pc = "done"
                     /\ th'[i].st = r.st /\ th'[i].err = r.err /\ th'[i].rows = r.rows
                 SameDelete(w) ==
                     IF w.st = "ok"
                     THEN /\ th'[i].pc = "delete"
                          /\ Range(th'[i].row_numbers) = Range(w.row_numbers)
                     ELSE /\ th'[i].pc = "done"
                          /\ th'[i].st = w.st /\ th'[i].err = w.err
                 Same(table, plain) ==
                     IF th[i].q.kind = "Select" THEN SameSelect(SelectBody(th[i].q, plain))
                     ELSE SameDelete(get_rows_for_where_condition(
                                         plain, Load(plain, table.name).table,
                                         th[i].q.where_body))
                 On(table) == Same(table, WithoutIndexes(fs, table))
             IN On(Load(fs, th[i].q.table_name).table)]_vars

\* the index file of every indexed column of the table holds, for every row
\* number of the row file, one entry (cell, row number) in the bucket of the
\* cell's hash, and nothing else
IndexFilesHoldRows(dir, table) ==
    LET rows == from_table(dir, table).rows
        Holds(index, c) ==
            LET entries == UNION {{<<h, k>> : k \in 1..Len(index.rows[h])} :
                                    h \in DOMAIN index.rows}
                Is(e, n) == index.rows[e[1]][e[2]] = <<rows[n][c], n - 1>>
            IN /\ index.st = "ok"
               /\ Cardinality(entries) = Len(rows)
               /\ \A n \in 1..Len(rows) :
                     \E e \in entries :
                        /\ Is(e, n)
                        /\ e[1] = calculate_hash(rows[n][c])
                        /\ \A o \in entries : Is(o, n) => o = e
    IN /\ from_table(dir, table).st = "ok"
       /\ \A c \in 1..Len(table.columns) :
             table.columns[c].is_indexed
             => Holds(get_index(dir, table, table.columns[c]), c)

\* C19: after every completed insert_row, delete_rows and add_index (and so
\* generate_indexes), the index file of every indexed column holds for each
\* row number of the row file exactly one entry (cell of the row, row
\* number), in the bucket of the cell's hash, and no other entry.
C19_IndexFilesFollowRows ==
    [][\A i \in 1..NThreads :
          (/\ Finishes(i)
           /\ th[i].q.kind \in {"Insert", "Delete", "CreateIndex"}
           /\ th'[i].st = "ok")
          => /\ Load(fs', th[i].q.table_name).st = "ok"
             /\ IndexFilesHoldRows(fs', Load(fs', th[i].q.table_name).table)]_vars

\* C19: an INSERT has added the row (3, 'a') behind the row (1, 'a') with
\* indexes on x and y; both rows share a bucket in each index.
C19_Witness ==
    /\ th[1].pc = "done" /\ th[1].st = "ok"
    /\ th[1].q = Insert(<<NumberLiteral(3), StringLiteral(sA)>>, <<>>, tT)
    /\ Load(fs, tT).st = "ok"
    /\ Load(fs, tT).table.columns[1].is_indexed
    /\ Load(fs, tT).table.columns[2].is_indexed
    /\ get_index(fs, Load(fs, tT).table, Load(fs, tT).table.columns[1]).rows
         = (1 :> <<(<<DInt(1), 0>>), (<<DInt(3), 1>>)>>)
    /\ Cardinality(DOMAIN get_index(fs, Load(fs, tT).table,
                                     Load(fs, tT).table.columns[2]).rows) = 1

(***************************************************************************)
(* Properties of the catalog all_tables (SpecTables).                      *)
(***************************************************************************)
\* the rows of all_tables, none when the catalog does not load
InfoRows(dir) ==
    LET Rows(it) == IF it.st = "ok" THEN it.rows ELSE <<>>
    IN IF Load(dir, TABLES_INFO_NAME).st # "ok" THEN <<>>
       ELSE Rows(from_table(dir, Load(dir, TABLES_INFO_NAME).table))

\* C13: in a sequential run of CREATE TABLE and DROP TABLE from an empty
\* directory, after each query all_tables holds exactly one row
\* (table_name, columns_count) for every user table that exists and no row
\* for a table that does not.
C13_CatalogListsExistingTables ==
    th[1].pc = "done"
    => \A name \in {tT, tU} :
          LET Listed(rows) ==
                  IF Load(fs, name).st = "ok"
                  THEN /\ Cardinality({n \in 1..Len(rows) : rows[n][1] = DString(name)}) = 1
                       /\ \E n \in 1..Len(rows) :
                             rows[n] = <<DString(name),
                                         DInt(Len(Load(fs, name).table.columns))>>
                  ELSE \A n \in 1..Len(rows) : rows[n][1] # DString(name)
          IN Listed(InfoRows(fs))

\* C29: an operation on one table never creates, overwrites or removes a
\* file that belongs to another table (the files <name>, <name>_rows and
\* <name><col>_index of a table are those of no table with another name):
\* every file a handler step changes is a file of no table but the table of
\* its query and the catalog all_tables.
C29_FilesOfOtherTablesUntouched ==
    [][\A i \in 1..NThreads :
          (th[i].pc \in {"body", "delete"} /\ th'[i] # th[i])
          => \A f \in DOMAIN fs \cup DOMAIN fs' :
                (f \notin DOMAIN fs \/ f \notin DOMAIN fs' \/ fs'[f] # fs[f])
                => \A name \in DOMAIN fs :
                      (/\ fs[name].hdr
                       /\ name \notin {th[i].q.table_name, TABLES_INFO_NAME})
                      => f \notin FilesOf(fs[name].table)]_vars

\* C27: once two concurrent CREATE TABLE calls with different table names
\* have both returned Ok, all_tables holds a row for each of the two tables,
\* also when all_tables did not exist when they started.
C27_BothTablesListed ==
    \A i, j \in 1..NThreads :
        (/\ i # j
         /\ th[i].pc = "done" /\ th[i].st = "ok" /\ th[i].q.kind = "CreateTable"
         /\ th[j].pc = "done" /\ th[j].st = "ok" /\ th[j].q.kind = "CreateTable"
         /\ th[i].q.table_name # th[j].q.table_name)
        => \E n \in 1..Len(InfoRows(fs)) :
              InfoRows(fs)[n] = <<DString(th[i].q.table_name),
                                  DInt(Len(th[i].q.columns_definition))>>

(***************************************************************************)
(* Properties of the functions called on their own (SpecFunctions).        *)
(***************************************************************************)
\* C15: for every schema and every row whose cells are NULL or of the types
\* of the columns, Row::from_bytes(r.to_bytes(S), S) == r: the call returns
\* and the row read back equals the row written, cell by cell.
C15_RowRoundTrip ==
    \A i \in 1..NThreads :
        (th[i].pc = "done" /\ th[i].tokens = <<>> /\ th[i].table # NoTable)
        => /\ th[i].st = "ok"
           /\ Len(th[i].rows) = 2
           /\ \A k \in 1..Len(th[i].rows[1]) : DataEq(th[i].rows[2][k], th[i].rows[1][k])

\* the position of the first quote of the kind of input[1] behind position
\* k that no backslash escapes (0: there is none)
RECURSIVE ClosingQuote(_, _)
ClosingQuote(input, k) ==
    IF k >= Len(input) THEN 0
    ELSE IF input[k + 1] = 92 THEN ClosingQuote(input, k + 2)
    ELSE IF input[k + 1] = input[1] THEN k + 1
    ELSE ClosingQuote(input, k + 1)

\* C24: inside a string literal only an unescaped quote of the kind of the
\* opening quote closes the literal, the other quote is ordinary content: a
\* text whose first unescaped quote of the opening kind is its last char is
\* one lexeme, the whole text with its quotes, and one StringLiteral token.
C24_MatchingQuoteCloses ==
    \A i \in 1..NThreads :
        (/\ th[i].pc = "done" /\ th[i].input # <<>>
         /\ ClosingQuote(th[i].input, 1) = Len(th[i].input))
        => /\ th[i].st = "ok"
           /\ th[i].lexemes = <<th[i].input>>
           /\ th[i].tokens = <<StringLiteral(SubSeq(th[i].input, 2, Len(th[i].input) - 1))>>

\* C16: for every statement kind, with or without WHERE, a single `;` after
\* a valid statement yields the same parsed Query, and any other token left
\* after the complete statement or after the `;` makes parse fail with
\* UnexpectedQueryEnding.
C16_SemicolonAndLeftOverTokens ==
    [][\A i \in 1..NThreads :
          (th[i].pc = "parse" /\ th'[i] # th[i])
          => \A statement \in Statements :
                parse_query(statement).st = "ok"
                => /\ th[i].tokens = statement \o <<Tok("Semicolon")>>
                      => /\ th'[i].pc \in {"evaluate", "done"}
                         /\ th'[i].pc = "done" => th'[i].st = "ok"
                         /\ th'[i].q = parse_query(statement).q
                   /\ th[i].tokens \in {statement \o rest : rest \in LeftOver}
                      => /\ th'[i].pc = "done"
                         /\ th'[i].st = "err"
                         /\ th'[i].err = "UnexpectedQueryEnding"
      ]_vars

\* the value of the right side of a Binary whose left side evaluates to NULL
NullLeft(node, identifier_map) ==
    IF node.kind = "Binary" /\ evaluate_node(node.left, identifier_map) = VOk(NULL)
    THEN evaluate_node(node.right, identifier_map)
    ELSE VErr("")

\* C17: with a NULL left operand, `=` yields true iff the right operand is
\* NULL, `<>` yields true iff the right operand is not NULL, and every other
\* binary operator, `!=` included, yields NULL, for every right operand value.
C17_NullLeftOperand ==
    [][\A i \in 1..NThreads :
          (th[i].pc = "evaluate" /\ th'[i] # th[i])
          => LET op == th[i].q.where_body.op
                 Yields(right) ==
                     right.st = "ok"
                     => /\ th'[i].pc = "done"
                        /\ th'[i].st = "ok"
                        /\ th'[i].rows =
                             <<(<<CASE op = CompareOp("=") -> DBool(right.val.tag = "NULL")
                                    [] op = CompareOp("<>") -> DBool(right.val.tag # "NULL")
                                    [] OTHER -> NULL>>)>>
             IN Yields(NullLeft(th[i].q.where_body, cX :> DInt(1)))
      ]_vars

\* C17: the WHERE clause NULL != 1 has been parsed and evaluated to NULL.
C17_Witness ==
    /\ th[1].pc = "done"
    /\ th[1].st = "ok"
    /\ th[1].q.where_body = Binary(Leaf(Tok("Null")), CompareOp("!="), Leaf(NumberLiteral(1)))
    /\ th[1].rows = <<(<<NULL>>)>>

\* C18: parse_tree groups the binary operators by precedence (* / % before
\* binary + -, before the comparisons, before and / or / xor), reads a + or -
\* right after an opening parenthesis as unary, and the tree evaluates to
\* the value that standard precedence gives the expression.
C18_StandardPrecedence ==
    \A i \in 1..NThreads :
        \A c \in PrecedenceCases :
            (th[i].tokens = Where(c[1]) /\ th[i].pc \in {"done", "hang"})
            => /\ th[i].pc = "done"
               /\ th[i].st = "ok"
               /\ th[i].rows = <<(<<c[2]>>)>>

\* C30: binary operators of one precedence level group from the left: with
\* integers a, b, c and no zero divisor, a - b - c evaluates to (a - b) - c,
\* a / b / c to (a / b) / c and a * b % c to (a * b) % c.
C30_GroupsFromTheLeft ==
    \A i \in 1..NThreads :
        \A e \in GroupingCases :
            (th[i].tokens = Where(e) /\ th[i].pc \in {"done", "hang"})
            => LET a == e[1].v[1]  b == e[3].v[1]  c == e[5].v[1]
                   value == CASE e[2].t = "Minus" -> (a - b) - c
                              [] e[2].t = "Slash" -> (a \div b) \div c
                              [] e[2].t = "Star" -> (a * b) % c
               IN /\ th[i].pc = "done"
                  /\ th[i].st = "ok"
                  /\ th[i].rows = <<(<<DInt(value)>>)>>

(***************************************************************************)
(* Properties of the lock registry (SpecRegistry).                         *)
(***************************************************************************)
\* C23: on one registry get_rw_lock returns the same lock object for equal
\* table names, also when the first lookups of a name run concurrently, and
\* different lock objects for different names; an entry once inserted is
\* never removed or replaced; and the mutex of the registry is released
\* before the caller takes the lock in read or write mode.
C23_OneLockPerName ==
    [][/\ \A n \in DOMAIN rw : n \in DOMAIN rw' /\ rw'[n].id = rw[n].id
       /\ \A n, m \in DOMAIN rw' : rw'[n].id = rw'[m].id => n = m
       /\ \A i \in 1..NThreads :
             th'[i].pc \in {"lock", "body", "delete", "blocked"}
             => /\ Cur(th'[i]).table_name \in DOMAIN rw'
                /\ th'[i].rw_lock = rw'[Cur(th'[i]).table_name].id
       /\ \A i, j \in 1..NThreads :
             (/\ th'[i].pc \in {"lock", "body", "delete", "blocked"}
              /\ th'[j].pc \in {"lock", "body", "delete", "blocked"})
             => (th'[i].rw_lock = th'[j].rw_lock
                 <=> Cur(th'[i]).table_name = Cur(th'[j]).table_name)
       /\ Cardinality({i \in 1..NThreads : th'[i].pc = "sync_guard"}) <= 1
       /\ \A i \in 1..NThreads :
             (th[i].pc = "lock" /\ th'[i] # th[i])
             => \A j \in 1..NThreads : th[j].pc = "sync_guard" => th'[j] = th[j]
      ]_vars

\* C23: two threads looked the name t up, the second while the first was
\* still waiting for the lock, and hold the same lock object; the lock of
\* the name u is another object.
C23_Witness ==
    /\ th[1].pc = "lock" /\ th[2].pc = "body"
    /\ th[1].q.table_name = tT /\ th[2].q.table_name = tT
    /\ th[1].rw_lock = th[2].rw_lock
    /\ th[1].rw_lock = rw[tT].id
    /\ tU \in DOMAIN rw /\ rw[tU].id # rw[tT].id

(***************************************************************************)
(* Properties of concurrent calls (SpecThreads).                           *)
(***************************************************************************)
\* the tables whose handler bodies the thread is executing: the table of the
\* handler it is in and, during the nested call of CREATE / DROP TABLE, the
\* table of the outer handler
BodiesOf(t) ==
    (IF t.pc \in {"body", "delete"} THEN {Cur(t).table_name} ELSE {})
    \cup (IF t.nested /\ t.pc \in {"lock", "body", "delete", "blocked"}
          THEN {t.q.table_name} ELSE {})

\* those of them whose handler modifies the files of the table
ModifyingBodiesOf(t) ==
    (IF t.pc \in {"body", "delete"} /\ Cur(t).kind # "Select"
     THEN {Cur(t).table_name} ELSE {})
    \cup (IF t.nested /\ t.pc \in {"lock", "body", "delete", "blocked"}
          THEN {t.q.table_name} ELSE {})

\* C1: while a handler that modifies a table's files (INSERT, DELETE, CREATE
\* INDEX, DROP INDEX, CREATE TABLE, DROP TABLE) executes its body, no other
\* thread executes the body of a handler on that table, reader or writer.
C1_WritersExclusive ==
    \A i, j \in 1..NThreads :
        i # j => ModifyingBodiesOf(th[i]) \cap BodiesOf(th[j]) = {}

\* C2: every valid INSERT INTO t of concurrent clients gets its lock, returns
\* Ok and leaves the table with exactly one more row, its own, behind the
\* rows the table held before; so N of them leave N more rows, each once.
C2_ConcurrentInsertsAllStored ==
    [][\A i \in 1..NThreads :
          (/\ th[i].pc \in {"lock", "body"} /\ th'[i] # th[i]
           /\ ~th[i].nested /\ th[i].q.kind = "Insert"
           /\ Load(fs, th[i].q.table_name).st = "ok"
           /\ from_table(fs, Load(fs, th[i].q.table_name).table).st = "ok"
           /\ InsertColumnsError(th[i].q, Load(fs, th[i].q.table_name).table) = ""
           /\ TypesMatch(insert_values(th[i].q, Load(fs, th[i].q.table_name).table),
                         Load(fs, th[i].q.table_name).table))
          => LET table == Load(fs, th[i].q.table_name).table
                 row == insert_values(th[i].q, table)
             IN IF th[i].pc = "lock" THEN th'[i].pc = "body"
                ELSE /\ th'[i].pc = "done" /\ th'[i].st = "ok"
                     /\ from_table(fs', table).st = "ok"
                     /\ Len(from_table(fs', table).rows) = Len(from_table(fs, table).rows) + 1
                     /\ from_table(fs', table).rows = from_table(fs, table).rows \o <<row>>]_vars

\* C3: no process_query call waits forever for a table lock, the nested
\* INSERT / DELETE on all_tables of CREATE TABLE and DROP TABLE included: no
\* thread is ever inside a write() / read() that cannot return.
C3_NoCallWaitsForever ==
    \A i \in 1..NThreads : th[i].pc # "blocked"

\* thread t holds the lock of the table for writing: it is past the write()
\* of an INSERT, CREATE / DROP TABLE or CREATE / DROP INDEX on it
HoldsWrite(t, table_name) ==
    /\ t.q.table_name = table_name
    /\ t.q.kind \in {"Insert", "CreateTable", "DropTable", "CreateIndex", "DropIndex"}
    /\ \/ t.pc \in {"body", "delete", "blocked"}
       \/ t.pc = "lock" /\ t.nested

C26_ConcurrentDeletesRemoveBoth ==
    [][\A i, j \in 1..NThreads :
          (/\ i # j
           /\ th[i].pc = "delete" /\ th'[i].pc = "done" /\ th'[i].st = "ok"
           /\ th[j].q.kind = "Delete" /\ th[j].q.table_name = th[i].q.table_name
           /\ th[j].pc \in {"body", "delete", "done"}
           /\ from_table(fs, th[i].table).st = "ok")
          => LET table == th[i].table
                 p == th[i].q.where_body
                 before == from_table(fs, table).rows
                 Sat(row) == p.kind = "None" \/ IsTrueOn(p, row, table)
             IN /\ from_table(fs', table).st = "ok"
                /\ from_table(fs', table).rows = SelectSeq(before, LAMBDA row : ~Sat(row))
                /\ IndexFilesHoldRows(fs', table)]_vars

====
